---------------------------- MODULE Spec2Model ----------------------------
(***************************************************************************)
(* Model of the compliance-oracle per-requirement agent pipeline:          *)
(*   - the LangGraph workflow (src/src/workflow): nodes, edge conditions,  *)
(*     state helpers and the runner's exception path;                      *)
(*   - the agent loop kernel BaseAgent.run (src/src/agents/base.py) with   *)
(*     the RetrievalAgent hooks (src/src/agents/retrieval_agent.py);       *)
(*   - the ValidationAgent checks (src/src/agents/validation_agent.py).    *)
(*                                                                         *)
(* Conventions.                                                            *)
(*   None is the empty sequence <<>> and a present value x is <<x>>.       *)
(*   Scores and confidences are hundredths: 0.7 is 70.                     *)
(*   A text is a sequence of chunks; s.lower() lowers every chunk and      *)
(*   `k in s` is "k occurs as a contiguous run of chunks of s".            *)
(*   The errors list is kept as its length, saturating at MaxErrors; the   *)
(*   logs list has no reader in the modelled code and is left out.         *)
(*   The workflow nodes call their agents through an interface that the    *)
(*   agents of src/src/agents do not offer (no-argument constructors, dict *)
(*   results); at node level an agent call is therefore an input: it       *)
(*   either raises or returns any value of the shape the node reads.       *)
(***************************************************************************)
EXTENDS Integers, Sequences, FiniteSets, TLC

VARIABLES
    pc,              \* workflow: the node the graph executes next
    state,           \* workflow: the WorkflowState dict
    final_state,     \* workflow: what ComplianceWorkflowRunner.run returned
    retrieve_execs,  \* history: retrieve_context executions for the current requirement
    validate_execs,  \* history: validate_finding executions for the current requirement
    route,           \* edge functions: the value the last evaluated edge function returned
    tick,            \* history: parity of the number of node executions so far
    run,             \* agents: the BaseAgent object and the context of its run() call
    manager          \* job runner: the JobManager's jobs, tasks and loggers, by job id

wf_idle == <<pc, state, final_state, retrieve_execs, validate_execs, route, tick, manager>>

vars == <<pc, state, final_state, retrieve_execs, validate_execs, route, tick, run, manager>>

-----------------------------------------------------------------------------
(* Bounds of the model *)

MaxReqs == 2
MaxSections == 1
MaxErrors == 2
MaxExecs == 4
MaxCap == 3
MaxHits == 1
MaxJobs == 2
MaxAwaits == 2

(* Program constants *)

DefaultMaxRetrievalIterations == 3
DefaultMaxValidationIterations == 2
ConfidenceThreshold == 70
DefaultMinResults == 3
DefaultRetrievalCap == 3
HighQualityScore == 70

-----------------------------------------------------------------------------
(* Option values and small helpers *)

None == <<>>
Some(x) == <<x>>
IsNone(o) == o = <<>>
Truthy(o) == o # <<>>
Min(a, b) == IF a < b THEN a ELSE b

(* Texts: sequences of chunks. *)
LowerChunk(c) ==
    CASE c = "Missing" -> "missing"
      [] c = "Should" -> "should"
      [] c = "Consider" -> "consider"
      [] c = "You" -> "you"
      [] c = "Update" -> "update"
      [] c = "Add" -> "add"
      [] c = "Section" -> "section"
      [] c = "INCOMPLETE" -> "incomplete"
      [] c = "Insufficient" -> "insufficient"
      [] c = "COMPLIANT" -> "compliant"
      [] c = "GAP" -> "gap"
      [] c = "PARTIAL_GAP" -> "partial_gap"
      [] c = "CONTRADICTION" -> "contradiction"
      [] c = "UNCERTAIN" -> "uncertain"
      [] c = "BOGUS" -> "bogus"
      [] c = "HIGH" -> "high"
      [] OTHER -> c

Lower(text) == [i \in 1..Len(text) |-> LowerChunk(text[i])]

Contains(text, k) ==
    \E i \in 0..(Len(text) - Len(k)) :
        \A j \in 1..Len(k) : text[i + j] = k[j]


-----------------------------------------------------------------------------
(* Inputs the collaborators can produce *)

Docs == {None, Some("doc")}
Confidences == {0, 69, 70, 95}
Verdicts == {"approved", "rejected", "retry"}
Feedbacks ==
    { None,
      Some(<<>>),
      Some(<<"Reasoning", " ", "chain", " ", "contains", " ", "logical", " ", "flaws">>),
      Some(<<"Missing", " ", "context">>),
      Some(<<"finding", " ", "has", " ", "missing", " ", "context">>),
      Some(<<"evidence", " ", "not", " ", "found">>) }

-----------------------------------------------------------------------------
(* src/src/workflow/state.py *)

create_initial_state ==
    [ policy_document |-> None,
      benchmark_document |-> None,
      requirements |-> <<>>,
      total_requirements |-> 0,
      current_requirement |-> None,
      current_requirement_index |-> 0,
      search_queries |-> None,
      retrieval_results |-> 0,
      retrieval_iteration |-> 0,
      max_retrieval_iterations |-> DefaultMaxRetrievalIterations,
      retrieval_confidence |-> 0,
      current_finding |-> None,
      validation_status |-> "None",
      validation_feedback |-> None,
      validation_iteration |-> 0,
      max_validation_iterations |-> DefaultMaxValidationIterations,
      findings |-> <<>>,
      all_requirements_processed |-> FALSE,
      workflow_status |-> "running",
      errors |-> 0 ]

add_error(s) == [s EXCEPT !.errors = Min(s.errors + 1, MaxErrors)]

reset_retrieval_iteration(s) ==
    [s EXCEPT !.retrieval_iteration = 0,
              !.retrieval_results = 0,
              !.retrieval_confidence = 0]

reset_validation_iteration(s) ==
    [s EXCEPT !.validation_iteration = 0,
              !.validation_status = "None",
              !.validation_feedback = None]

increment_retrieval_iteration(s) ==
    [s EXCEPT !.retrieval_iteration = s.retrieval_iteration + 1]

increment_validation_iteration(s) ==
    [s EXCEPT !.validation_iteration = s.validation_iteration + 1]

get_next_requirement(s) ==
    IF s.current_requirement_index < Len(s.requirements)
    THEN Some(s.requirements[s.current_requirement_index + 1])
    ELSE None

move_to_next_requirement_keep_verdict(s) ==
    LET s1 == [s EXCEPT !.current_requirement_index = s.current_requirement_index + 1]
        s2 == reset_retrieval_iteration(s1)
        s3 == [s2 EXCEPT !.current_finding = None, !.validation_iteration = 0]
        next_req == get_next_requirement(s3)
        s4 == [s3 EXCEPT !.current_requirement = next_req]
    IN  IF IsNone(next_req)
        THEN [s4 EXCEPT !.all_requirements_processed = TRUE]
        ELSE s4

move_to_next_requirement(s) ==
    LET s1 == [s EXCEPT !.current_requirement_index = s.current_requirement_index + 1]
        s2 == reset_validation_iteration(reset_retrieval_iteration(s1))
        s3 == [s2 EXCEPT !.current_finding = None]
        next_req == get_next_requirement(s3)
        s4 == [s3 EXCEPT !.current_requirement = next_req]
    IN  IF IsNone(next_req)
        THEN [s4 EXCEPT !.all_requirements_processed = TRUE]
        ELSE s4

-----------------------------------------------------------------------------
(* src/src/workflow/conditions.py *)

needs_more_retrieval_confidence_only(s) ==
    IF s.retrieval_iteration >= s.max_retrieval_iterations THEN "analyze"
    ELSE IF s.retrieval_confidence < ConfidenceThreshold THEN "retrieve_more"
    ELSE "analyze"

needs_more_retrieval(s) ==
    IF s.retrieval_iteration >= s.max_retrieval_iterations THEN "analyze"
    ELSE IF s.retrieval_results = 0 THEN "retrieve_more"
    ELSE IF s.retrieval_confidence < ConfidenceThreshold
            /\ s.retrieval_iteration < s.max_retrieval_iterations
         THEN "retrieve_more"
    ELSE "analyze"

has_more_requirements(s) ==
    IF s.all_requirements_processed THEN "complete" ELSE "understand_query"

RetrievalKeywords ==
    { <<"incomplete">>, <<"missing">>, <<"insufficient">>,
      <<"not", " ", "found">>, <<"more", " ", "context">> }

should_retry_retrieval_no_missing(s) ==
    IF s.validation_status # "retry" THEN "False"
    ELSE IF s.retrieval_iteration >= s.max_retrieval_iterations THEN "False"
    ELSE IF IsNone(s.validation_feedback) THEN "AttributeError"
    ELSE IF \E k \in RetrievalKeywords \ {<<"missing">>} :
                Contains(Lower(s.validation_feedback[1]), k)
         THEN "True"
    ELSE "False"

(* "True" / "False", or "AttributeError" when None.lower() is evaluated. *)
should_retry_retrieval(s) ==
    IF s.validation_status # "retry" THEN "False"
    ELSE IF s.retrieval_iteration >= s.max_retrieval_iterations THEN "False"
    ELSE IF IsNone(s.validation_feedback) THEN "AttributeError"
    ELSE IF \E k \in RetrievalKeywords :
                Contains(Lower(s.validation_feedback[1]), k)
         THEN "True"
    ELSE "False"

route_after_validation_no_cap(s) ==
    IF s.validation_status = "approved" THEN "aggregate"
    ELSE IF s.validation_status = "rejected" THEN "aggregate"
    ELSE IF s.validation_status = "retry"
         THEN CASE should_retry_retrieval(s) = "True" -> "retry_retrieval"
                [] should_retry_retrieval(s) = "False" -> "retry_analysis"
                [] OTHER -> "AttributeError"
    ELSE "aggregate"

(* conditions.py 50-92: the route, or "AttributeError" when None.lower() is *)
(* evaluated.                                                               *)
needs_validation_retry(s) ==
    IF s.validation_status = "approved" THEN "aggregate"
    ELSE IF s.validation_status = "rejected" THEN "aggregate"
    ELSE IF s.validation_status = "retry"
            /\ s.validation_iteration < s.max_validation_iterations
         THEN IF IsNone(s.validation_feedback) THEN "AttributeError"
              ELSE IF \/ Contains(Lower(s.validation_feedback[1]), <<"incomplete">>)
                      \/ Contains(Lower(s.validation_feedback[1]), <<"missing">>)
                   THEN "retry_retrieval"
                   ELSE "retry_analysis"
    ELSE "aggregate"

(* The route, or "AttributeError" when should_retry_retrieval raises. *)
route_after_validation(s) ==
    IF s.validation_status = "approved" THEN "aggregate"
    ELSE IF s.validation_status = "rejected" THEN "aggregate"
    ELSE IF s.validation_status = "retry"
         THEN IF s.validation_iteration >= s.max_validation_iterations
              THEN "aggregate"
              ELSE CASE should_retry_retrieval(s) = "True" -> "retry_retrieval"
                     [] should_retry_retrieval(s) = "False" -> "retry_analysis"
                     [] OTHER -> "AttributeError"
    ELSE "aggregate"

-----------------------------------------------------------------------------
(* src/src/agents/base.py: the agent object before and during run() *)

EmptyContext ==
    [ search_strategy |-> [primary_queries |-> <<>>,
                           secondary_queries |-> <<>>,
                           category_queries |-> <<>>],
      sections_found |-> <<>>,
      queries_executed |-> <<>>,
      seen_section_ids |-> {},
      checks |-> None,
      draft_finding |-> None,
      result |-> None ]

NoRun ==
    [ kind |-> "none",
      max_iterations |-> 0,
      min_results |-> 0,
      current_step |-> 0,
      steps |-> <<>>,
      state |-> "idle",
      at |-> "idle",
      context |-> EmptyContext,
      queries_to_run |-> <<>>,
      action_result |-> <<>>,
      error |-> None,
      returned |-> None,
      finding |-> None,
      store |-> [up |-> TRUE, ids |-> {}],
      llm |-> "true",
      validated |-> None,
      outcome |-> None,
      returned_scores |-> <<>>,
      analysis_reply |-> "none",
      recommendation_reply |-> "none",
      requirement_text |-> <<>>,
      sections |-> <<>>,
      analysed |-> None,
      llm_calls |-> 0,
      sent |-> <<>> ]

(* src/services/pipeline_worker/jobs.py: what the JobManager holds for one  *)
(* job id.  status "none": no Job under that id; task: the asyncio task of  *)
(* run_job; registered: the id is in _running_tasks; logger: the id is in   *)
(* _loggers; awaits: suspensions of the pipeline so far; cancel_job: what    *)
(* the last cancel_job call returned.                                       *)
JobIds == 1..MaxJobs

NoJob ==
    [ status |-> "none",
      error |-> None,
      task |-> "none",
      must_cancel |-> FALSE,
      registered |-> FALSE,
      logger |-> FALSE,
      awaits |-> 0,
      cancel_job |-> "none" ]

NoJobs == [id \in JobIds |-> NoJob]

-----------------------------------------------------------------------------
(* src/src/workflow/graph.py: the runner's initial state *)

Init ==
    /\ \E p \in Docs, b \in Docs :
          state = [create_initial_state EXCEPT !.policy_document = p,
                                               !.benchmark_document = b]
    /\ pc = "parse_documents"
    /\ final_state = None
    /\ retrieve_execs = 0
    /\ validate_execs = 0
    /\ route = None
    /\ tick = 0
    /\ manager = NoJobs
    /\ run = NoRun

Bump(n) == Min(n + 1, MaxExecs)

-----------------------------------------------------------------------------
(* src/src/workflow/nodes.py, each node followed by its outgoing edge of    *)
(* create_compliance_workflow                                               *)

(* The parsers raise, or both documents are replaced by structured ones. *)
parse_documents ==
    /\ pc = "parse_documents"
    /\ \/ state' = state
       \/ /\ Truthy(state.policy_document) \/ Truthy(state.benchmark_document)
          /\ state' = [add_error(state) EXCEPT !.workflow_status = "failed"]
    /\ pc' = "extract_requirements"
    /\ UNCHANGED <<final_state, retrieve_execs, validate_execs, route>>
    /\ tick' = 1 - tick
    /\ UNCHANGED <<run, manager>>

(* requirement_extractor.py 207, 443-459: a requirement's id is built from  *)
(* the source name and the cleaned section id, so two requirements of one   *)
(* benchmark can carry the same id.  Ids are named by first occurrence.     *)
RequirementLists ==
    { ids \in UNION { [1..n -> 1..MaxReqs] : n \in 0..MaxReqs } :
        \A i \in 1..Len(ids) :
            \A id \in 1..(ids[i] - 1) : \E j \in 1..(i - 1) : ids[j] = id }

extract_requirements ==
    /\ pc = "extract_requirements"
    /\ \/ \* no benchmark document, or the extractor raises
          /\ state' = [add_error(state) EXCEPT !.workflow_status = "failed"]
       \/ /\ Truthy(state.benchmark_document)
          /\ \E n \in 0..MaxReqs, requirements \in RequirementLists :
               /\ Len(requirements) = n
               /\ LET s1 == [state EXCEPT !.requirements = requirements,
                                          !.total_requirements = n]
                  IN  state' =
                     IF n > 0
                     THEN reset_validation_iteration(reset_retrieval_iteration(
                            [s1 EXCEPT !.current_requirement = Some(requirements[1]),
                                       !.current_requirement_index = 0]))
                     ELSE s1
    /\ pc' = "understand_query"
    /\ UNCHANGED <<final_state, retrieve_execs, validate_execs, route>>
    /\ tick' = 1 - tick
    /\ UNCHANGED <<run, manager>>

understand_query ==
    /\ pc = "understand_query"
    /\ \/ \* no current requirement, or the query agent raises
          state' = add_error(state)
       \/ /\ Truthy(state.current_requirement)
          /\ \E search_strategy \in
                  {None, Some([built_for |-> state.current_requirement[1]])} :
               state' = [state EXCEPT !.search_queries = search_strategy]
    /\ pc' = "retrieve_context"
    /\ UNCHANGED <<final_state, retrieve_execs, validate_execs, route>>
    /\ tick' = 1 - tick
    /\ UNCHANGED <<run, manager>>

EdgeAfterRetrieve(s) ==
    IF needs_more_retrieval(s) = "retrieve_more"
    THEN "retrieve_context"
    ELSE "analyze_gap"

retrieve_context ==
    /\ pc = "retrieve_context"
    /\ \/ \* missing data, or the retrieval agent raises
          state' = add_error(state)
       \/ /\ Truthy(state.policy_document)
          /\ Truthy(state.search_queries)
          /\ Truthy(state.current_requirement)
          /\ \E sections \in 0..MaxSections, confidence \in Confidences :
               state' = increment_retrieval_iteration(
                          [state EXCEPT !.retrieval_results = sections,
                                        !.retrieval_confidence = confidence])
    /\ pc' = EdgeAfterRetrieve(state')
    /\ retrieve_execs' = Bump(retrieve_execs)
    /\ UNCHANGED <<final_state, validate_execs, route>>
    /\ tick' = 1 - tick
    /\ UNCHANGED <<run, manager>>

analyze_gap ==
    /\ pc = "analyze_gap"
    /\ \/ \* no current requirement, or the analysis agent raises
          state' = add_error(state)
       \/ /\ Truthy(state.current_requirement)
          /\ \E finding \in {None, Some([requirement_id |-> state.current_requirement[1]])} :
               \/ state' = [state EXCEPT !.current_finding = finding]
               \/ \* 288-291: a finding that is not compliant is stored, then
                  \* reading finding.gap_type raises
                  /\ Truthy(finding)
                  /\ state' = add_error([state EXCEPT !.current_finding = finding])
    /\ pc' = "validate_finding"
    /\ UNCHANGED <<final_state, retrieve_execs, validate_execs, route>>
    /\ tick' = 1 - tick
    /\ UNCHANGED <<run, manager>>

EdgeAfterValidate(s) ==
    CASE route_after_validation(s) = "aggregate" -> "aggregate_findings"
      [] route_after_validation(s) = "retry_analysis" -> "analyze_gap"
      [] route_after_validation(s) = "retry_retrieval" -> "retrieve_context"
      [] OTHER -> "except"

validate_finding ==
    /\ pc = "validate_finding"
    /\ \/ /\ IsNone(state.current_finding)
          /\ state' = [state EXCEPT !.validation_status = "approved"]
       \/ /\ Truthy(state.current_finding)
          /\ \E status \in Verdicts, feedback \in Feedbacks :
               state' = increment_validation_iteration(
                          [state EXCEPT !.validation_status = status,
                                        !.validation_feedback = feedback])
       \/ \* the validation agent raises
          /\ Truthy(state.current_finding)
          /\ state' = [add_error(state) EXCEPT !.validation_status = "retry"]
    /\ pc' = EdgeAfterValidate(state')
    /\ validate_execs' = Bump(validate_execs)
    /\ UNCHANGED <<final_state, retrieve_execs, route>>
    /\ tick' = 1 - tick
    /\ UNCHANGED <<run, manager>>

aggregate_findings_state_any_verdict(s) ==
    LET s1 == IF Truthy(s.current_finding)
              THEN [s EXCEPT !.findings = Append(s.findings, s.current_finding[1])]
              ELSE s
        s2 == move_to_next_requirement(s1)
    IN  IF s2.all_requirements_processed
        THEN [s2 EXCEPT !.workflow_status = "completed"]
        ELSE s2

aggregate_findings_state(s) ==
    LET s1 == IF Truthy(s.current_finding) /\ s.validation_status = "approved"
              THEN [s EXCEPT !.findings = Append(s.findings, s.current_finding[1])]
              ELSE s
        s2 == move_to_next_requirement(s1)
    IN  IF s2.all_requirements_processed
        THEN [s2 EXCEPT !.workflow_status = "completed"]
        ELSE s2

EdgeAfterAggregate(s) ==
    IF has_more_requirements(s) = "complete" THEN "END" ELSE "understand_query"

aggregate_findings ==
    /\ pc = "aggregate_findings"
    /\ state' = aggregate_findings_state(state)
    /\ pc' = EdgeAfterAggregate(state')
    /\ retrieve_execs' = 0
    /\ validate_execs' = 0
    /\ UNCHANGED <<final_state, route>>
    /\ tick' = 1 - tick
    /\ UNCHANGED <<run, manager>>

(* ComplianceWorkflowRunner.run: invoke returned, or raised. *)
RunnerReturn ==
    /\ pc = "END"
    /\ final_state' = Some(state)
    /\ pc' = "returned"
    /\ UNCHANGED <<state, retrieve_execs, validate_execs, route, tick, run, manager>>

(* 198-202: error_state is a shallow copy of the runner's own initial_state. *)
(* Its scalar fields are the initial ones.  Its findings and errors lists   *)
(* are the list objects of initial_state: they hold what the nodes appended *)
(* if the graph library handed those same objects to the nodes (shared),    *)
(* and nothing if it worked on copies; src does not decide which.           *)
error_state(s, shared) ==
    [create_initial_state EXCEPT !.policy_document = s.policy_document,
                                 !.benchmark_document = s.benchmark_document,
                                 !.workflow_status = "failed",
                                 !.findings = IF shared THEN s.findings ELSE <<>>,
                                 !.errors = IF shared THEN Min(s.errors + 1, MaxErrors)
                                            ELSE 1]

RunnerExcept ==
    /\ pc = "except"
    /\ \E shared \in BOOLEAN : final_state' = Some(error_state(state, shared))
    /\ pc' = "returned"
    /\ UNCHANGED <<state, retrieve_execs, validate_execs, route, tick, run, manager>>

Next ==
    \/ parse_documents
    \/ extract_requirements
    \/ understand_query
    \/ retrieve_context
    \/ analyze_gap
    \/ validate_finding
    \/ aggregate_findings
    \/ RunnerReturn
    \/ RunnerExcept

Spec == Init /\ [][Next]_vars

FairSpec == Spec /\ WF_vars(Next)

-----------------------------------------------------------------------------
(* The edge functions of src/src/workflow/conditions.py applied to an       *)
(* arbitrary WorkflowState: every value of the fields they read.            *)

RouteInit ==
    /\ \E status \in Verdicts \cup {"None"},
          feedback \in Feedbacks,
          validation_iteration \in 0..(DefaultMaxValidationIterations + 1),
          max_validation_iterations \in {1, DefaultMaxValidationIterations},
          retrieval_iteration \in 0..(DefaultMaxRetrievalIterations + 1),
          sections \in 0..MaxSections,
          confidence \in Confidences :
          state = [create_initial_state EXCEPT
                     !.validation_status = status,
                     !.validation_feedback = feedback,
                     !.validation_iteration = validation_iteration,
                     !.max_validation_iterations = max_validation_iterations,
                     !.retrieval_iteration = retrieval_iteration,
                     !.retrieval_results = sections,
                     !.retrieval_confidence = confidence]
    /\ pc = "edge"
    /\ final_state = None
    /\ retrieve_execs = 0
    /\ validate_execs = 0
    /\ route = None
    /\ tick = 0
    /\ manager = NoJobs
    /\ run = NoRun

EvalRouteAfterValidation_counting ==
    /\ pc = "edge"
    /\ route' = Some(route_after_validation(state))
    /\ state' = increment_validation_iteration(state)
    /\ pc' = "after_validate_finding"
    /\ UNCHANGED <<final_state, retrieve_execs, validate_execs, tick, run, manager>>

(* conditions.py 232-275 called on the state: only state.get is used *)
EvalRouteAfterValidation ==
    /\ pc = "edge"
    /\ route' = Some(route_after_validation(state))
    /\ pc' = "after_validate_finding"
    /\ UNCHANGED <<state, final_state, retrieve_execs, validate_execs, tick, run, manager>>

(* graph.py 113-121: the node the validation edge leads to *)
FollowValidationEdge ==
    /\ pc = "after_validate_finding"
    /\ pc' = EdgeAfterValidate(state)
    /\ UNCHANGED <<state, final_state, retrieve_execs, validate_execs, route, tick, run, manager>>

EvalNeedsMoreRetrieval ==
    /\ pc = "edge"
    /\ route' = Some(needs_more_retrieval(state))
    /\ pc' = "after_retrieve_context"
    /\ UNCHANGED <<state, final_state, retrieve_execs, validate_execs, tick, run, manager>>

(* conditions.py 50-92 called on the state *)
EvalNeedsValidationRetry ==
    /\ pc = "edge"
    /\ route' = Some(needs_validation_retry(state))
    /\ pc' = "after_needs_validation_retry"
    /\ UNCHANGED <<state, final_state, retrieve_execs, validate_execs, tick, run, manager>>

RouteNext ==
    \/ EvalRouteAfterValidation
    \/ FollowValidationEdge
    \/ EvalNeedsMoreRetrieval
    \/ EvalNeedsValidationRetry

RouteSpec == RouteInit /\ [][RouteNext]_vars

-----------------------------------------------------------------------------
(* Claims about the workflow graph *)

(* C1: every run started at parse_documents ends: the runner returns a     *)
(* completed or failed state after finitely many node executions.          *)
C1_RunTerminates == <>(pc = "returned")

(* C2: the findings list changes only in aggregate_findings, only by       *)
(* appending the current finding, and only while the last validation       *)
(* verdict is approved; a rejected or given-up finding is never appended.  *)
C2_AppendOnlyApproved ==
    [][ state'.findings # state.findings =>
          /\ pc = "aggregate_findings"
          /\ state.validation_status = "approved"
          /\ Truthy(state.current_finding)
          /\ state'.findings = Append(state.findings, state.current_finding[1])
      ]_vars

(* Two requirements aggregated: one finding appended, the other dropped. *)
C2_Witness ==
    /\ pc = "END"
    /\ state.current_requirement_index = 2
    /\ Len(state.findings) = 1

(* C9: per requirement retrieve_context runs at most 3 times and           *)
(* validate_finding at most 2 times, and the two counters stay within      *)
(* their maxima.                                                           *)
C9_ExecutionCaps ==
    /\ retrieve_execs <= DefaultMaxRetrievalIterations
    /\ validate_execs <= DefaultMaxValidationIterations
    /\ state.retrieval_iteration <= DefaultMaxRetrievalIterations
    /\ state.validation_iteration <= DefaultMaxValidationIterations

-----------------------------------------------------------------------------
(* Claims about the edge functions *)

Mentions(feedback, keywords) ==
    /\ Truthy(feedback)
    /\ \E k \in keywords : Contains(Lower(feedback[1]), k)

MissingContextWords ==
    { <<"incomplete">>, <<"missing">>, <<"insufficient">>,
      <<"not", " ", "found">>, <<"more", " ", "context">> }

ValidationRouted == pc = "after_validate_finding"

RetryBelowMax ==
    /\ state.validation_status = "retry"
    /\ state.validation_iteration < state.max_validation_iterations

ScenarioD ==
    /\ state.validation_status = "retry"
    /\ Truthy(state.validation_feedback)
    /\ Contains(state.validation_feedback[1], <<"missing", " ", "context">>)
    /\ state.validation_iteration = 1
    /\ state.max_validation_iterations = 2

EdgeFollowed ==
    /\ Truthy(route)
    /\ pc \notin {"edge", "after_validate_finding", "after_retrieve_context",
                  "after_needs_validation_retry"}

C7_NeedsMoreRetrieval ==
    pc = "after_retrieve_context" =>
        /\ route[1] \in {"retrieve_more", "analyze"}
        /\ route[1] = "retrieve_more" <=>
              /\ state.retrieval_iteration < state.max_retrieval_iterations
              /\ \/ state.retrieval_results = 0
                 \/ state.retrieval_confidence < 70

(* Empty results with a high confidence below the cap: retrieve_more. *)
C7_Witness ==
    /\ pc = "after_retrieve_context"
    /\ state.retrieval_results = 0
    /\ state.retrieval_confidence >= 70
    /\ state.retrieval_iteration = 2
    /\ route = Some("retrieve_more")

-----------------------------------------------------------------------------
(* src/src/agents/retrieval_agent.py: data of a retrieval run *)

SectionIds == {"S1", "S2", "S3"}
Scores == {50, 75, 85, 90}
PrimaryLists == { <<>>, <<"q1">>, <<"q1", "q2">>, <<"q1", "", "q1">>, <<"q1", "q2", "q3">> }
SecondaryLists == { <<>>, <<"q2">>, <<"q1">>, <<"q4">>, <<"q1", "q2">> }
CategoryLists == { <<>>, <<"q3">> }

Hits == [section_id : SectionIds, score : Scores]

(* What vector_store.search can return: up to MaxHits hits. *)
Responses == UNION { [1..n -> Hits] : n \in 0..MaxHits }

SeqToSet(seq) == { seq[i] : i \in 1..Len(seq) }

(* SearchStrategy.get_all_queries: the three tiers, in order. *)
get_all_queries(strategy) ==
    strategy.primary_queries \o strategy.secondary_queries \o strategy.category_queries

SortDesc_unsorted(seq) == seq

(* list.sort(key=relevance_score, reverse=True): stable, descending. *)
RECURSIVE SortDesc(_)
SortDesc(seq) ==
    IF Len(seq) <= 1 THEN seq
    ELSE LET sorted == SortDesc(SubSeq(seq, 1, Len(seq) - 1))
             x == seq[Len(seq)]
             before == SelectSeq(sorted, LAMBDA y : y.relevance_score >= x.relevance_score)
             after == SelectSeq(sorted, LAMBDA y : y.relevance_score < x.relevance_score)
         IN  before \o <<x>> \o after

(* _act 122-139: one response folded into (new_sections, seen_section_ids). *)
RECURSIVE AddResults_no_dedup(_, _, _, _)
AddResults_no_dedup(results, query, new_sections, seen) ==
    IF results = <<>> THEN [new_sections |-> new_sections, seen |-> seen]
    ELSE LET result == Head(results)
         IN  AddResults_no_dedup(Tail(results), query,
                                 Append(new_sections,
                                        [section_id |-> result.section_id,
                                         relevance_score |-> result.score,
                                         found_by_query |-> query]),
                                 seen \cup {result.section_id})

RECURSIVE AddResults_keep_highest(_, _, _, _)
AddResults_keep_highest(results, query, new_sections, seen) ==
    IF results = <<>> THEN [new_sections |-> new_sections, seen |-> seen]
    ELSE LET result == Head(results)
             raised == [i \in 1..Len(new_sections) |->
                          IF /\ new_sections[i].section_id = result.section_id
                             /\ new_sections[i].relevance_score < result.score
                          THEN [new_sections[i] EXCEPT !.relevance_score = result.score]
                          ELSE new_sections[i]]
         IN  IF result.section_id \in seen
             THEN AddResults_keep_highest(Tail(results), query, raised, seen)
             ELSE AddResults_keep_highest(Tail(results), query,
                             Append(new_sections,
                                    [section_id |-> result.section_id,
                                     relevance_score |-> result.score,
                                     found_by_query |-> query]),
                             seen \cup {result.section_id})

RECURSIVE AddResults(_, _, _, _)
AddResults(results, query, new_sections, seen) ==
    IF results = <<>> THEN [new_sections |-> new_sections, seen |-> seen]
    ELSE LET result == Head(results)
         IN  IF result.section_id \in seen
             THEN AddResults(Tail(results), query, new_sections, seen)
             ELSE AddResults(Tail(results), query,
                             Append(new_sections,
                                    [section_id |-> result.section_id,
                                     relevance_score |-> result.score,
                                     found_by_query |-> query]),
                             seen \cup {result.section_id})

(* history: per section id, how often the store has returned it, with its  *)
(* first and its highest score                                              *)
NeverReturned == [times |-> 0, first |-> 0, best |-> 0]

RECURSIVE Noted(_, _)
Noted(scores, results) ==
    IF results = <<>> THEN scores
    ELSE LET hit == Head(results)
             old == scores[hit.section_id]
             new == IF old.times = 0
                    THEN [times |-> 1, first |-> hit.score, best |-> hit.score]
                    ELSE [times |-> old.times + 1,
                          first |-> old.first,
                          best |-> IF hit.score > old.best THEN hit.score ELSE old.best]
         IN  Noted([scores EXCEPT ![hit.section_id] = new], Tail(results))

SkipQuery_empty_only(query, queries_executed) == query = ""

(* 106: if not query or query in queries_executed: continue *)
SkipQuery(query, queries_executed) ==
    query = "" \/ query \in SeqToSet(queries_executed)

(* 116-119: one call of vector_store.search, with the iteration it is made in *)
Sent(query, step) == [query |-> query, step |-> step]

(* 105-107, 141: queries_executed after the for loop has gone over queries *)
RECURSIVE ExecutedAfter(_, _)
ExecutedAfter(queries_executed, queries) ==
    IF queries = <<>> THEN queries_executed
    ELSE IF SkipQuery(Head(queries), queries_executed)
         THEN ExecutedAfter(queries_executed, Tail(queries))
         ELSE ExecutedAfter(Append(queries_executed, Head(queries)), Tail(queries))

(* 96-101 *)
QueriesToRun(r) ==
    IF r.current_step = 1 THEN r.context.search_strategy.primary_queries
    ELSE IF r.current_step = 2 THEN r.context.search_strategy.secondary_queries
    ELSE r.context.search_strategy.category_queries

_should_continue(r) ==
    LET sections_found == r.context.sections_found
        high_quality_results ==
            SelectSeq(sections_found, LAMBDA s : s.relevance_score > HighQualityScore)
        all_queries == get_all_queries(r.context.search_strategy)
        remaining_queries ==
            SelectSeq(all_queries,
                      LAMBDA q : q \notin SeqToSet(r.context.queries_executed))
    IN  IF r.current_step >= r.max_iterations THEN FALSE
        ELSE IF Len(high_quality_results) >= r.min_results THEN FALSE
        ELSE IF remaining_queries = <<>> THEN FALSE
        ELSE TRUE

_assess_coverage_inclusive(sections_found) ==
    LET high_relevance == SelectSeq(sections_found, LAMBDA s : s.relevance_score >= 80)
        medium_relevance ==
            SelectSeq(sections_found,
                      LAMBDA s : 60 <= s.relevance_score /\ s.relevance_score <= 80)
    IN  IF sections_found = <<>> THEN "none"
        ELSE IF Len(high_relevance) >= 3 THEN "comprehensive"
        ELSE IF Len(high_relevance) >= 1 \/ Len(medium_relevance) >= 3 THEN "partial"
        ELSE "insufficient"

(* _assess_coverage 223-241 *)
_assess_coverage(sections_found) ==
    LET high_relevance == SelectSeq(sections_found, LAMBDA s : s.relevance_score > 80)
        medium_relevance ==
            SelectSeq(sections_found,
                      LAMBDA s : 60 <= s.relevance_score /\ s.relevance_score <= 80)
    IN  IF sections_found = <<>> THEN "none"
        ELSE IF Len(high_relevance) >= 3 THEN "comprehensive"
        ELSE IF Len(high_relevance) >= 1 \/ Len(medium_relevance) >= 3 THEN "partial"
        ELSE IF sections_found # <<>> THEN "insufficient"
        ELSE "none"

TopCount == 5

RECURSIVE SumScores(_)
SumScores(scores) == IF scores = <<>> THEN 0 ELSE Head(scores) + SumScores(Tail(scores))

top_scores_all(sections_found) ==
    [i \in 1..Len(sections_found) |-> sections_found[i].relevance_score]

(* 256: the scores of sections_found[:5] *)
top_scores(sections_found) ==
    [i \in 1..Min(TopCount, Len(sections_found)) |-> sections_found[i].relevance_score]

(* A confidence is the quotient sum / count of hundredths; 0.0 is 0 / 1. *)
ZeroConfidence == [sum |-> 0, count |-> 1]

(* _extract_result 243-267 *)
_extract_result(r) ==
    LET sections_found == r.context.sections_found
        scores == top_scores(sections_found)
    IN  [ retrieval_attempts |-> r.current_step,
          queries_executed |-> r.context.queries_executed,
          sections_found |-> sections_found,
          coverage_assessment |-> _assess_coverage(sections_found),
          confidence |-> IF sections_found = <<>> THEN ZeroConfidence
                         ELSE IF scores # <<>>
                              THEN [sum |-> SumScores(scores), count |-> Len(scores)]
                              ELSE ZeroConfidence ]

FailedRetrieval_keeps_found(r) == _extract_result(r)

(* retrieve 296-305: the outcome of a failed run *)
FailedRetrieval(r) ==
    [ retrieval_attempts |-> r.current_step,
      queries_executed |-> <<>>,
      sections_found |-> <<>>,
      coverage_assessment |-> "none",
      confidence |-> ZeroConfidence ]

-----------------------------------------------------------------------------
(* src/src/agents/validation_agent.py: the finding under validation, the    *)
(* vector store and the LLM answer its checks read.  The Finding fields are *)
(* the ones the agent reads (status, confidence, sections_found,            *)
(* reasoning_chain, gap_details.policy_has, recommendation).                *)

MaxChain == 2

FindingStatuses == {"compliant", "partial_gap", "gap", "contradiction", "uncertain"}
FindingConfidences == {45, 50, 60, 70, 75}
CitedLists == { <<>>, <<"S1">>, <<"S1", "S2">> }
GapDetailsValues ==
    { None, Some([policy_has |-> None]), Some([policy_has |-> Some("Section 2.3")]) }
Recommendations ==
    { <<>>,
      <<"Update", " ", "it">>,
      <<"You", " ", "Should", " ", "Consider", " ", "reviewing", " ", "Section", " ", "2.3">>,
      <<"Add", " ", "a", " ", "beneficial", " ", "owner", " ", "definition", " ",
        "to", " ", "Section", " ", "2.3">> }

Findings ==
    [ status : FindingStatuses,
      confidence : FindingConfidences,
      sections_found : CitedLists,
      reasoning_chain : 0..MaxChain,
      gap_details : GapDetailsValues,
      recommendation : Recommendations ]

(* The store either answers get_by_section_id from its ids or raises. *)
Stores ==
    { [up |-> FALSE, ids |-> {}] } \cup
    { [up |-> TRUE, ids |-> I] : I \in {{}, {"S1"}, {"S1", "S2"}} }

(* The LLM's reply to the logic prompt: a JSON object with is_valid true or *)
(* false or without is_valid, or a failed call / a reply that is no JSON    *)
(* object.                                                                  *)
LlmReplies == {"true", "false", "no_is_valid", "error"}

ValidationCaps == {1, 2}

(* Finding.is_gap(): called by the agents, defined in no source file; a     *)
(* finding is gap-type unless it is compliant.                              *)
is_gap(finding) == finding.status # "compliant"

(* len(str) of a text *)
RECURSIVE TextLen(_)
TextLen(text) == IF text = <<>> THEN 0 ELSE Len(Head(text)) + TextLen(Tail(text))

(* 112-128; the caller handles a store that raises *)
_verify_citations(finding, store) ==
    IF finding.sections_found = <<>> THEN TRUE
    ELSE \A i \in 1..Len(finding.sections_found) :
            finding.sections_found[i] \in store.ids

(* 132-166: the logic prompt is sent unless the chain is too short *)
logic_prompt_sent(finding) ==
    ~(finding.reasoning_chain = 0) /\ ~(finding.reasoning_chain < 2)

_verify_logic_fail_closed(finding, llm) ==
    IF ~logic_prompt_sent(finding) THEN FALSE
    ELSE llm = "true"

(* 130-180: data.get("is_valid", False), and True when anything raises *)
_verify_logic(finding, llm) ==
    IF ~logic_prompt_sent(finding) THEN FALSE
    ELSE CASE llm = "true" -> TRUE
           [] llm = "false" -> FALSE
           [] llm = "no_is_valid" -> FALSE
           [] OTHER -> TRUE

_verify_completeness_weak_compliant(finding) ==
    IF /\ finding.status = "gap"
       /\ finding.sections_found = <<>>
       /\ finding.confidence < 70
    THEN FALSE
    ELSE IF /\ finding.status = "compliant"
            /\ finding.sections_found = <<>>
            /\ finding.confidence < 60
    THEN FALSE
    ELSE TRUE

(* 182-201 *)
_verify_completeness(finding) ==
    IF /\ finding.status = "gap"
       /\ finding.sections_found = <<>>
       /\ finding.confidence < 70
    THEN FALSE
    ELSE IF finding.status = "compliant" /\ finding.sections_found = <<>> THEN FALSE
    ELSE IF finding.status = "compliant" /\ finding.confidence < 60 THEN FALSE
    ELSE TRUE

_detect_hallucination_inclusive(finding) ==
    IF /\ Truthy(finding.gap_details)
       /\ Truthy(finding.gap_details[1].policy_has)
       /\ finding.sections_found = <<>>
    THEN FALSE
    ELSE IF finding.status = "uncertain" /\ finding.confidence >= 70 THEN FALSE
    ELSE IF finding.status = "compliant" /\ finding.confidence <= 50 THEN FALSE
    ELSE TRUE

(* 203-221 *)
_detect_hallucination(finding) ==
    IF /\ Truthy(finding.gap_details)
       /\ Truthy(finding.gap_details[1].policy_has)
       /\ finding.sections_found = <<>>
    THEN FALSE
    ELSE IF finding.status = "uncertain" /\ finding.confidence > 70 THEN FALSE
    ELSE IF finding.status = "compliant" /\ finding.confidence < 50 THEN FALSE
    ELSE TRUE

VaguePhrases ==
    { <<"should", " ", "consider">>, <<"may", " ", "want", " ", "to">>,
      <<"could", " ", "improve">>, <<"think", " ", "about">> }

(* 223-249 *)
_verify_recommendation(finding) ==
    IF finding.recommendation = <<>>
    THEN ~(is_gap(finding) /\ finding.status # "uncertain")
    ELSE IF \E phrase \in VaguePhrases : Contains(Lower(finding.recommendation), phrase)
    THEN FALSE
    ELSE IF TextLen(finding.recommendation) < 20 THEN FALSE
    ELSE TRUE

(* _act 71-84: the checks of step 1 *)
run_checks(finding, store, llm) ==
    [ citation_valid |-> _verify_citations(finding, store),
      logic_valid |-> _verify_logic(finding, llm),
      completeness_ok |-> _verify_completeness(finding),
      no_hallucination |-> _detect_hallucination(finding),
      recommendation_actionable |->
          IF is_gap(finding) THEN _verify_recommendation(finding) ELSE TRUE ]

(* dict.get(key, False) and dict.get(key) read as a truth value *)
Get(checks, key) == IF key \in DOMAIN checks THEN checks[key] ELSE FALSE

CriticalChecks == {"citation_valid", "no_hallucination"}

IssueTable ==
    << [check |-> "citation_valid",
        issue |-> "Citation verification failed - referenced section does not exist",
        suggestion |-> None],
       [check |-> "logic_valid",
        issue |-> "Reasoning chain contains logical flaws",
        suggestion |-> Some("Re-analyze with clearer reasoning steps")],
       [check |-> "completeness_ok",
        issue |-> "Search may not have been thorough enough",
        suggestion |-> Some("Expand search with additional queries")],
       [check |-> "no_hallucination",
        issue |-> "Potential hallucination detected",
        suggestion |-> Some("Verify all facts against source documents")],
       [check |-> "recommendation_actionable",
        issue |-> "Recommendation is too vague or missing",
        suggestion |-> Some("Generate more specific, actionable recommendation")] >>

RECURSIVE Itemize(_, _)
Itemize(checks, table) ==
    IF table = <<>> THEN [issues |-> <<>>, suggestions |-> <<>>]
    ELSE LET row == Head(table)
             rest == Itemize(checks, Tail(table))
         IN  IF Get(checks, row.check) THEN rest
             ELSE [issues |-> <<row.issue>> \o rest.issues,
                   suggestions |-> row.suggestion \o rest.suggestions]

is_valid_any_four(checks) ==
    Cardinality({k \in DOMAIN checks : checks[k]}) >= Cardinality(DOMAIN checks) - 1

(* 257-266 *)
is_valid(checks) ==
    /\ {check \in CriticalChecks : ~Get(checks, check)} = {}
    /\ Cardinality({k \in DOMAIN checks : checks[k]}) >= Cardinality(DOMAIN checks) - 1

(* 251-296 *)
_generate_validation_result(checks) ==
    LET items == Itemize(checks, IssueTable)
    IN  [ is_valid |-> is_valid(checks),
          validation_checks |-> checks,
          issues |-> items.issues,
          suggestions |-> items.suggestions ]

(* validate 315-321: the verdict of a failed run *)
FailedValidation ==
    [ is_valid |-> FALSE,
      validation_checks |-> <<>>,
      issues |-> <<"Validation process failed">>,
      suggestions |-> <<"Retry validation">> ]

-----------------------------------------------------------------------------
(* src/src/agents/analysis_agent.py.  The Finding, ReasoningStep and        *)
(* GapDetails values are the ones the agent builds and reads; a reasoning   *)
(* chain is the sequence of its observations.                               *)

DefaultAnalysisCap == 2

(* One field of the JSON object the LLM returns: absent, or a value that is *)
(* null, a number, a text or an object.                                     *)
StatusFields ==
    {"absent", "number", "BOGUS", "COMPLIANT", "compliant", "GAP",
     "PARTIAL_GAP", "CONTRADICTION", "UNCERTAIN"}
ConfidenceFields ==
    { [kind |-> "absent", value |-> 0], [kind |-> "null", value |-> 0],
      [kind |-> "text", value |-> 0],
      [kind |-> "number", value |-> 40], [kind |-> "number", value |-> 85] }
StepFields == {"ok", "missing_key", "not_object", "wrong_type"}
(* reasoning_steps lists: well-formed steps, the last one possibly not *)
StepLists ==
    UNION { { [i \in 1..n |-> IF i < n THEN "ok" ELSE last] : last \in StepFields }
            : n \in 1..MaxChain } \cup {<<>>}
ReasoningFields ==
    { [kind |-> "absent", steps |-> <<>>], [kind |-> "null", steps |-> <<>>] } \cup
    { [kind |-> "list", steps |-> l] : l \in StepLists }
SeverityFields == {"absent", "HIGH", "BOGUS", "number"}
GapDetailsFields == {"absent", "object", "object_no_policy_lacks", "text"}

JsonObjects ==
    [ status : StatusFields,
      confidence : ConfidenceFields,
      reasoning_steps : ReasoningFields,
      severity : SeverityFields,
      gap_details : GapDetailsFields ]

DefaultJson ==
    [ status |-> "COMPLIANT",
      confidence |-> [kind |-> "number", value |-> 85],
      reasoning_steps |-> [kind |-> "list", steps |-> <<"ok">>],
      severity |-> "absent",
      gap_details |-> "absent" ]

(* What llm_client.generate does for the analysis prompt: it raises, its    *)
(* response has no text, the text is not JSON, it is a JSON array, or it is *)
(* a JSON object.  Stripping a code fence (169-172) changes none of these.  *)
AnalysisReplyKinds == {"raises", "no_content", "not_json", "json_array", "json_object"}
AnalysisReplies ==
    { [kind |-> k, data |-> DefaultJson] : k \in AnalysisReplyKinds \ {"json_object"} } \cup
    { [kind |-> "json_object", data |-> d] : d \in JsonObjects }

(* What llm_client.generate does for the recommendation prompt. *)
RecommendationReplies ==
    { [kind |-> "raises", content |-> <<>>],
      [kind |-> "text", content |-> <<>>],
      [kind |-> "text", content |-> <<" ", "Add", " ", "a", " ", "definition", " ">>] }

RequirementTexts == { <<>>, <<"Define", " ", "the", " ", "beneficial", " ", "owner">> }

(* str.strip on a text of chunks *)
RECURSIVE StripLeft(_)
StripLeft(text) ==
    IF text # <<>> /\ Head(text) = " " THEN StripLeft(Tail(text)) ELSE text

RECURSIVE StripRight(_)
StripRight(text) ==
    IF text # <<>> /\ text[Len(text)] = " "
    THEN StripRight(SubSeq(text, 1, Len(text) - 1))
    ELSE text

Strip(text) == StripRight(StripLeft(text))

(* 181: ComplianceStatus(data["status"].lower()) *)
StatusError(data) ==
    CASE data.status = "absent" -> "KeyError"
      [] data.status = "number" -> "AttributeError"
      [] LowerChunk(data.status) \notin FindingStatuses -> "ValueError"
      [] OTHER -> "none"

(* 182: float(data["confidence"]) *)
ConfidenceError(data) ==
    CASE data.confidence.kind = "absent" -> "KeyError"
      [] data.confidence.kind = "null" -> "TypeError"
      [] data.confidence.kind = "text" -> "ValueError"
      [] OTHER -> "none"

(* 185-187 and models/findings.py 53-58 for one element of reasoning_steps *)
StepError(step) ==
    CASE step = "missing_key" -> "KeyError"
      [] step = "not_object" -> "TypeError"
      [] step = "wrong_type" -> "ValueError"
      [] OTHER -> "none"

(* 183-190: the comprehension over data.get("reasoning_steps", []) *)
ReasoningError(data) ==
    CASE data.reasoning_steps.kind = "null" -> "TypeError"
      [] \E i \in 1..Len(data.reasoning_steps.steps) :
            StepError(data.reasoning_steps.steps[i]) # "none" ->
         LET i == CHOOSE j \in 1..Len(data.reasoning_steps.steps) :
                     /\ StepError(data.reasoning_steps.steps[j]) # "none"
                     /\ \A k \in 1..(j - 1) :
                           StepError(data.reasoning_steps.steps[k]) = "none"
         IN  StepError(data.reasoning_steps.steps[i])
      [] OTHER -> "none"

(* 192: Severity(data["severity"].lower()) if data.get("severity") else None *)
SeverityError(data) ==
    CASE data.severity = "number" -> "AttributeError"
      [] data.severity = "BOGUS" -> "ValueError"
      [] OTHER -> "none"

(* 197-201 and models/findings.py 61-66: policy_lacks is a required str *)
GapDetailsError(data) ==
    CASE data.gap_details = "text" -> "AttributeError"
      [] data.gap_details = "object_no_policy_lacks" -> "ValueError"
      [] OTHER -> "none"

(* 177-193: the Finding built from the parsed object *)
ParsedFinding(data, sections) ==
    [ status |-> LowerChunk(data.status),
      confidence |-> data.confidence.value,
      reasoning_chain |-> [i \in 1..Len(data.reasoning_steps.steps) |-> "parsed"],
      sections_found |-> sections,
      severity |-> IF data.severity = "absent" THEN None
                   ELSE Some(LowerChunk(data.severity)),
      gap_details |-> None,
      recommendation |-> None ]

(* 208-222 *)
ParseFallback(sections) ==
    [ status |-> "uncertain",
      confidence |-> 30,
      reasoning_chain |-> <<"Analysis failed due to parsing error">>,
      sections_found |-> sections,
      severity |-> None,
      gap_details |-> None,
      recommendation |-> None ]

(* analyze 308-322 *)
FailedAnalysis(sections) ==
    [ status |-> "uncertain",
      confidence |-> 0,
      reasoning_chain |-> <<"Analysis failed">>,
      sections_found |-> sections,
      severity |-> None,
      gap_details |-> None,
      recommendation |-> None ]

(* The exception that leaves the try block of _analyze_compliance, if any,  *)
(* in the order the statements of 161-201 are evaluated.                    *)
FirstOf(errors) ==
    IF \E i \in 1..Len(errors) : errors[i] # "none"
    THEN errors[CHOOSE i \in 1..Len(errors) :
                   /\ errors[i] # "none"
                   /\ \A j \in 1..(i - 1) : errors[j] = "none"]
    ELSE "none"

AnalysisError(reply) ==
    CASE reply.kind = "raises" -> "ConnectionError"
      [] reply.kind = "no_content" -> "AttributeError"
      [] reply.kind = "not_json" -> "JSONDecodeError"
      [] reply.kind = "json_array" -> "TypeError"
      [] OTHER ->
         LET data == reply.data
             built == FirstOf(<<StatusError(data), ConfidenceError(data),
                                ReasoningError(data), SeverityError(data)>>)
         IN  IF built # "none" THEN built
             ELSE IF data.gap_details # "absent" /\ LowerChunk(data.status) # "compliant"
                  THEN GapDetailsError(data)
                  ELSE "none"

(* 205 *)
CaughtByParseFallback == {"JSONDecodeError", "KeyError", "ValueError"}

GapDetailsOf(data) ==
    Some([ what_is_missing |-> "Specific element missing",
           policy_has |-> Some("What policy covers"),
           policy_lacks |-> "What policy lacks" ])

_analyze_compliance_gap_details_always(reply, sections) ==
    LET error == AnalysisError(reply)
        finding == ParsedFinding(reply.data, sections)
    IN  IF error = "none"
        THEN [ raised |-> None,
               finding |-> Some(IF reply.data.gap_details # "absent"
                                THEN [finding EXCEPT !.gap_details = GapDetailsOf(reply.data)]
                                ELSE finding) ]
        ELSE IF error \in CaughtByParseFallback
        THEN [raised |-> None, finding |-> Some(ParseFallback(sections))]
        ELSE [raised |-> Some(error), finding |-> None]

(* 160-222: the finding returned, or the exception that leaves the method *)
_analyze_compliance(reply, sections) ==
    LET error == AnalysisError(reply)
        finding == ParsedFinding(reply.data, sections)
    IN  IF error = "none"
        THEN [ raised |-> None,
               finding |-> Some(IF reply.data.gap_details # "absent" /\ is_gap(finding)
                                THEN [finding EXCEPT !.gap_details = GapDetailsOf(reply.data)]
                                ELSE finding) ]
        ELSE IF error \in CaughtByParseFallback
        THEN [raised |-> None, finding |-> Some(ParseFallback(sections))]
        ELSE [raised |-> Some(error), finding |-> None]

_add_recommendation_for_all(finding, requirement_text, reply) ==
    IF reply.kind = "text"
    THEN [finding EXCEPT !.recommendation = Some(Strip(reply.content))]
    ELSE [finding EXCEPT !.recommendation =
              Some(<<"Add policy section addressing: ">> \o requirement_text)]

(* 224-264 *)
_add_recommendation(finding, requirement_text, reply) ==
    IF ~is_gap(finding)
    THEN [finding EXCEPT !.recommendation = None]
    ELSE IF reply.kind = "text"
    THEN [finding EXCEPT !.recommendation = Some(Strip(reply.content))]
    ELSE [finding EXCEPT !.recommendation =
              Some(<<"Add policy section addressing: ">> \o requirement_text)]

-----------------------------------------------------------------------------
(* src/src/agents/base.py: BaseAgent.run, one action per statement group;  *)
(* kind "generic" is a subclass whose hooks return or raise at will, kind   *)
(* "retrieval" is RetrievalAgent.                                           *)

AgentInit ==
    /\ \E kind \in {"generic", "retrieval"},
          cap \in 0..MaxCap,
          min_results \in {1, DefaultMinResults},
          primary \in PrimaryLists,
          secondary \in SecondaryLists,
          category \in CategoryLists :
          /\ kind = "generic" =>
                /\ primary = <<>> /\ secondary = <<>> /\ category = <<>>
                /\ min_results = DefaultMinResults
          \* the three-query primary tier is run with the default settings
          /\ Len(primary) = 3 =>
                \/ primary = <<"q1", "", "q1">>
                \/ /\ cap = DefaultRetrievalCap
                   /\ min_results = DefaultMinResults
                   /\ secondary = <<"q4">>
                   /\ category = <<"q3">>
          /\ secondary = <<"q4">> => Len(primary) = 3
          /\ run = [NoRun EXCEPT
                      !.kind = kind,
                      !.max_iterations = cap,
                      !.min_results = min_results,
                      !.at = "loop",
                      !.returned_scores = [id \in SectionIds |-> NeverReturned],
                      !.context.search_strategy =
                          [primary_queries |-> primary,
                           secondary_queries |-> secondary,
                           category_queries |-> category]]
    /\ pc = "agent"
    /\ state = create_initial_state
    /\ final_state = None
    /\ retrieve_execs = 0
    /\ validate_execs = 0
    /\ route = None
    /\ tick = 0
    /\ manager = NoJobs

loop_test_inclusive(r) == r.current_step <= r.max_iterations

(* 164-165: the while test and the step counter *)
loop_test(r) == r.current_step < r.max_iterations

AgentIterate ==
    /\ run.at = "loop"
    /\ loop_test(run)
    /\ run' = [run EXCEPT !.current_step = run.current_step + 1,
                          !.state = "thinking",
                          !.at = "think"]
    /\ UNCHANGED wf_idle

AgentLoopExit ==
    /\ run.at = "loop"
    /\ ~loop_test(run)
    /\ run' = [run EXCEPT !.at = "extract"]
    /\ UNCHANGED wf_idle

(* 174-175 *)
AgentThink ==
    /\ run.at = "think"
    /\ \/ run' = [run EXCEPT !.state = "acting", !.at = "act"]
       \/ /\ run.kind = "generic"
          /\ run' = [run EXCEPT !.error = Some("_think"), !.at = "except"]
    /\ UNCHANGED wf_idle

(* 184-185, a generic _act *)
AgentAct ==
    /\ run.at = "act"
    /\ run.kind = "generic"
    /\ \/ run' = [run EXCEPT !.state = "observing", !.at = "observe"]
       \/ run' = [run EXCEPT !.error = Some("_act"), !.at = "except"]
    /\ UNCHANGED wf_idle

(* ValidationAgent._act 67-89: step 1 runs the checks, _verify_citations    *)
(* first, which asks the store for every cited section; a later step builds *)
(* the verdict from context["checks"].                                      *)
ValidationAct ==
    /\ run.at = "act"
    /\ run.kind = "validation"
    /\ LET finding == run.finding[1]
       IN  IF run.current_step = 1
           THEN IF finding.sections_found # <<>> /\ ~run.store.up
                THEN run' = [run EXCEPT !.error = Some("vector_store.get_by_section_id"),
                                        !.at = "except"]
                ELSE run' = [run EXCEPT
                               !.action_result = run_checks(finding, run.store, run.llm),
                               !.llm_calls = IF logic_prompt_sent(finding) THEN 1 ELSE 0,
                               !.state = "observing",
                               !.at = "observe"]
           ELSE IF IsNone(run.context.checks)
                THEN run' = [run EXCEPT !.error = Some("KeyError"), !.at = "except"]
                ELSE run' = [run EXCEPT
                               !.action_result =
                                   _generate_validation_result(run.context.checks[1]),
                               !.state = "observing",
                               !.at = "observe"]
    /\ UNCHANGED wf_idle

(* AnalysisAgent._act 63-74: step 1 analyses, a later step adds the         *)
(* recommendation to context.get("draft_finding").                          *)
AnalysisAct ==
    /\ run.at = "act"
    /\ run.kind = "analysis"
    /\ IF run.current_step = 1
       THEN LET analysis == _analyze_compliance(run.analysis_reply, run.sections)
            IN  IF Truthy(analysis.raised)
                THEN run' = [run EXCEPT !.error = analysis.raised, !.at = "except"]
                ELSE run' = [run EXCEPT !.action_result = analysis.finding[1],
                                        !.state = "observing",
                                        !.at = "observe"]
       ELSE IF IsNone(run.context.draft_finding)
            THEN run' = [run EXCEPT !.error = Some("AttributeError"), !.at = "except"]
            ELSE run' = [run EXCEPT
                           !.action_result =
                               _add_recommendation(run.context.draft_finding[1],
                                                   run.requirement_text,
                                                   run.recommendation_reply),
                           !.state = "observing",
                           !.at = "observe"]
    /\ UNCHANGED wf_idle

(* RetrievalAgent._act 90-104 *)
RetrievalActBegin ==
    /\ run.at = "act"
    /\ run.kind = "retrieval"
    /\ run' = [run EXCEPT !.queries_to_run = QueriesToRun(run),
                          !.action_result = <<>>,
                          !.at = "act_loop"]
    /\ UNCHANGED wf_idle

(* RetrievalAgent._act 105-141: one turn of the query loop *)
RetrievalActQuery ==
    /\ run.at = "act_loop"
    /\ run.queries_to_run # <<>>
    /\ LET query == Head(run.queries_to_run)
           rest == Tail(run.queries_to_run)
       IN  IF SkipQuery(query, run.context.queries_executed)
           THEN run' = [run EXCEPT !.queries_to_run = rest]
           ELSE \/ \E results \in Responses :
                     LET added == AddResults(results, query, run.action_result,
                                             run.context.seen_section_ids)
                     IN  run' = [run EXCEPT
                                   !.queries_to_run = rest,
                                   !.action_result = added.new_sections,
                                   !.context.seen_section_ids = added.seen,
                                   !.returned_scores = Noted(run.returned_scores, results),
                                   !.sent = Append(run.sent, Sent(query, run.current_step)),
                                   !.context.queries_executed =
                                       Append(run.context.queries_executed, query)]
                \/ \* vector_store.search raises
                   run' = [run EXCEPT !.error = Some("vector_store.search"),
                                      !.sent = Append(run.sent, Sent(query, run.current_step)),
                                      !.at = "except"]
    /\ UNCHANGED wf_idle

RetrievalActEnd_merging ==
    /\ run.at = "act_loop"
    /\ run.queries_to_run = <<>>
    /\ run' = [run EXCEPT !.context.sections_found =
                              run.context.sections_found \o run.action_result,
                          !.state = "observing",
                          !.at = "observe"]
    /\ UNCHANGED wf_idle

(* RetrievalAgent._act 143-147 *)
RetrievalActEnd ==
    /\ run.at = "act_loop"
    /\ run.queries_to_run = <<>>
    /\ run' = [run EXCEPT !.state = "observing", !.at = "observe"]
    /\ UNCHANGED wf_idle

(* RetrievalAgent._observe 151-165: the list is extended and sorted, then   *)
(* the observation f-string raises: IndexError on sections_found[0] when    *)
(* the list is empty, ValueError on the format spec                        *)
(* ".3f if sections_found else 0" otherwise.                                *)
retrieval_observe(r) ==
    [r EXCEPT !.context.sections_found =
                  SortDesc(r.context.sections_found \o r.action_result),
              !.error = IF r.context.sections_found \o r.action_result = <<>>
                        THEN Some("IndexError")
                        ELSE Some("ValueError"),
              !.at = "except"]

(* ValidationAgent._observe 91-106, then the step is recorded *)
validation_observe(r) ==
    LET r1 == IF r.current_step = 1
              THEN [r EXCEPT !.context.checks = Some(r.action_result)]
              ELSE [r EXCEPT !.context.result = Some(r.action_result)]
    IN  [r1 EXCEPT !.steps = Append(r.steps, r.current_step), !.at = "decide"]

(* AnalysisAgent._observe 76-85, then the step is recorded *)
analysis_observe(r) ==
    LET r1 == IF r.current_step = 1
              THEN [r EXCEPT !.context.draft_finding = Some(r.action_result)]
              ELSE [r EXCEPT !.context.result = Some(r.action_result)]
    IN  [r1 EXCEPT !.steps = Append(r.steps, r.current_step), !.at = "decide"]

(* 188-205: _observe, then the step is recorded *)
AgentObserve ==
    /\ run.at = "observe"
    /\ \/ /\ run.kind = "generic"
          /\ \/ run' = [run EXCEPT !.steps = Append(run.steps, run.current_step),
                                   !.at = "decide"]
             \/ run' = [run EXCEPT !.error = Some("_observe"), !.at = "except"]
       \/ /\ run.kind = "retrieval"
          /\ run' = retrieval_observe(run)
       \/ /\ run.kind = "validation"
          /\ run' = validation_observe(run)
       \/ /\ run.kind = "analysis"
          /\ run' = analysis_observe(run)
    /\ UNCHANGED wf_idle

(* ValidationAgent._should_continue 108-110 *)
validation_should_continue(r) == r.current_step < 2

(* AnalysisAgent._should_continue 87-89 *)
analysis_should_continue(r) == r.current_step < 2

(* 207-214 *)
AgentDecide ==
    /\ run.at = "decide"
    /\ \/ /\ run.kind = "generic"
          /\ \/ run' = [run EXCEPT !.at = "loop"]
             \/ run' = [run EXCEPT !.state = "completed", !.at = "extract"]
             \/ run' = [run EXCEPT !.error = Some("_should_continue"),
                                   !.at = "except"]
       \/ /\ run.kind = "retrieval"
          /\ run' = IF _should_continue(run)
                    THEN [run EXCEPT !.at = "loop"]
                    ELSE [run EXCEPT !.state = "completed", !.at = "extract"]
       \/ /\ run.kind = "validation"
          /\ run' = IF validation_should_continue(run)
                    THEN [run EXCEPT !.at = "loop"]
                    ELSE [run EXCEPT !.state = "completed", !.at = "extract"]
       \/ /\ run.kind = "analysis"
          /\ run' = IF analysis_should_continue(run)
                    THEN [run EXCEPT !.at = "loop"]
                    ELSE [run EXCEPT !.state = "completed", !.at = "extract"]
    /\ UNCHANGED wf_idle

(* 216-224 *)
AgentExtract ==
    /\ run.at = "extract"
    /\ run' = [run EXCEPT !.returned = Some([success |-> TRUE,
                                             result |-> IF run.kind = "retrieval"
                                                        THEN Some(_extract_result(run))
                                                        ELSE run.context.result,
                                             steps |-> run.steps,
                                             total_steps |-> run.current_step,
                                             error |-> None]),
                          !.at = "returned"]
    /\ UNCHANGED wf_idle

AgentExcept_clears_history ==
    /\ run.at = "except"
    /\ run' = [run EXCEPT !.state = "failed",
                          !.returned = Some([success |-> FALSE,
                                             result |-> None,
                                             steps |-> <<>>,
                                             total_steps |-> run.current_step,
                                             error |-> run.error]),
                          !.at = "returned"]
    /\ UNCHANGED wf_idle

(* 226-240 *)
AgentExcept ==
    /\ run.at = "except"
    /\ run' = [run EXCEPT !.state = "failed",
                          !.returned = Some([success |-> FALSE,
                                             result |-> None,
                                             steps |-> run.steps,
                                             total_steps |-> run.current_step,
                                             error |-> run.error]),
                          !.at = "returned"]
    /\ UNCHANGED wf_idle

(* RetrievalAgent.retrieve 292-305 *)
RetrieveReturn ==
    /\ run.at = "returned"
    /\ run.kind = "retrieval"
    /\ run' = [run EXCEPT !.outcome = IF run.returned[1].success
                                      THEN run.returned[1].result
                                      ELSE Some(FailedRetrieval(run)),
                          !.at = "retrieved"]
    /\ UNCHANGED wf_idle

AgentNext ==
    \/ AgentIterate
    \/ AgentLoopExit
    \/ AgentThink
    \/ AgentAct
    \/ RetrievalActBegin
    \/ RetrievalActQuery
    \/ RetrievalActEnd
    \/ AgentObserve
    \/ AgentDecide
    \/ AgentExtract
    \/ AgentExcept
    \/ RetrieveReturn

AgentSpec == AgentInit /\ [][AgentNext]_vars

-----------------------------------------------------------------------------
(* src/src/agents/retrieval_agent.py: the end of retrieve, from every       *)
(* context that the loop's merge keeps (unique section ids, sorted by       *)
(* descending relevance), taken at the continue decision of an iteration or *)
(* at an exception: _extract_result after the loop, or the failure outcome. *)

MaxFound == 6

OutcomeScores == {50, 60, 80, 90}
OutcomeIds == <<"S1", "S2", "S3", "S4", "S5", "S6", "S7">>

SortedScoreLists ==
    { scores \in UNION { [1..n -> OutcomeScores] : n \in 0..MaxFound } :
        \A i \in 1..(Len(scores) - 1) : scores[i] >= scores[i + 1] }

OutcomeInit ==
    /\ \E scores \in SortedScoreLists, step \in 1..DefaultRetrievalCap,
          at \in {"decide", "except"} :
          run = [NoRun EXCEPT
                   !.kind = "retrieval",
                   !.max_iterations = DefaultRetrievalCap,
                   !.min_results = DefaultMinResults,
                   !.current_step = step,
                   !.steps = [i \in 1..(IF at = "decide" THEN step ELSE step - 1) |-> i],
                   !.state = "observing",
                   !.at = at,
                   !.returned_scores = [id \in SectionIds |-> NeverReturned],
                   !.context.search_strategy =
                       [primary_queries |-> <<"q1">>,
                        secondary_queries |-> <<"q2">>,
                        category_queries |-> <<"q3">>],
                   !.context.queries_executed = <<"q1">>,
                   !.context.seen_section_ids =
                       { OutcomeIds[i] : i \in 1..Len(scores) },
                   !.context.sections_found =
                       [i \in 1..Len(scores) |->
                          [section_id |-> OutcomeIds[i],
                           relevance_score |-> scores[i],
                           found_by_query |-> "q1"]]]
    /\ pc = "agent"
    /\ state = create_initial_state
    /\ final_state = None
    /\ retrieve_execs = 0
    /\ validate_execs = 0
    /\ route = None
    /\ tick = 0
    /\ manager = NoJobs

(* The run goes on from the continue decision of the drawn iteration; the   *)
(* while test cannot fail after a _should_continue that saw the cap not     *)
(* reached.                                                                 *)
OutcomeNext ==
    \/ AgentDecide
    \/ AgentIterate
    \/ AgentThink
    \/ RetrievalActBegin
    \/ RetrievalActQuery
    \/ RetrievalActEnd
    \/ AgentObserve
    \/ AgentExtract
    \/ AgentExcept
    \/ RetrieveReturn

OutcomeSpec == OutcomeInit /\ [][OutcomeNext]_vars

-----------------------------------------------------------------------------
(* src/src/agents/validation_agent.py: ValidationAgent.validate, reached    *)
(* with a finding, a store and an LLM; and the validate_finding node for    *)
(* the same finding.                                                        *)

DefaultValidationCap == 2

DefaultFinding ==
    [ status |-> "compliant", confidence |-> 75, sections_found |-> <<>>,
      reasoning_chain |-> 0, gap_details |-> None, recommendation |-> <<>> ]

ValidatorInit ==
    /\ \E finding \in Findings, store \in Stores, llm \in LlmReplies,
          cap \in ValidationCaps, present \in BOOLEAN :
          \* inputs no check reads are fixed
          /\ finding.sections_found = <<>> => store = [up |-> TRUE, ids |-> {}]
          /\ finding.reasoning_chain < 2 => llm = "true"
          /\ ~present => finding = DefaultFinding /\ cap = DefaultValidationCap
          /\ run = [NoRun EXCEPT !.kind = "validation",
                                 !.max_iterations = cap,
                                 !.finding = Some(finding),
                                 !.store = store,
                                 !.llm = llm,
                                 !.at = "loop"]
          /\ state = [create_initial_state EXCEPT
                         !.current_finding = IF present THEN Some(finding) ELSE None]
    /\ pc = "validate_finding"
    /\ final_state = None
    /\ retrieve_execs = 0
    /\ validate_execs = 0
    /\ route = None
    /\ tick = 0
    /\ manager = NoJobs

(* validate 298-321 *)
ValidateReturn ==
    /\ run.at = "returned"
    /\ run.kind = "validation"
    /\ run' = [run EXCEPT !.validated = IF run.returned[1].success
                                        THEN run.returned[1].result
                                        ELSE Some(FailedValidation),
                          !.at = "validated"]
    /\ UNCHANGED wf_idle

(* nodes.py 303-357 with the agent of validation_agent.py: the node calls   *)
(* ValidationAgent() without the llm_client and vector_store arguments that *)
(* __init__ (25-30) requires, so for a present finding the call raises and  *)
(* the except branch runs.  The step is taken once validate has answered    *)
(* for the same finding with the default cap.                               *)
ValidateFindingNode ==
    /\ run.at = "validated"
    /\ run.max_iterations = DefaultValidationCap
    /\ validate_finding
    /\ Truthy(state.current_finding) => state'.errors > state.errors

ValidatorNext ==
    \/ AgentIterate
    \/ AgentLoopExit
    \/ AgentThink
    \/ ValidationAct
    \/ AgentObserve
    \/ AgentDecide
    \/ AgentExtract
    \/ AgentExcept
    \/ ValidateReturn
    \/ ValidateFindingNode

ValidatorSpec == ValidatorInit /\ [][ValidatorNext]_vars

-----------------------------------------------------------------------------
(* src/src/agents/analysis_agent.py: AnalysisAgent.analyze with the default *)
(* cap, for every reply of the LLM to the analysis prompt and to the        *)
(* recommendation prompt.                                                   *)

AnalyzerInit ==
    /\ \E reply \in AnalysisReplies,
          recommendation_reply \in RecommendationReplies,
          requirement_text \in RequirementTexts,
          sections \in CitedLists :
          LET data == reply.data
              analysis == _analyze_compliance(reply, sections)
          IN  \* fields that are not evaluated after an exception are fixed
              /\ StatusError(data) # "none" =>
                    data.confidence = DefaultJson.confidence
              /\ FirstOf(<<StatusError(data), ConfidenceError(data)>>) # "none" =>
                    data.reasoning_steps = DefaultJson.reasoning_steps
              /\ FirstOf(<<StatusError(data), ConfidenceError(data),
                           ReasoningError(data)>>) # "none" =>
                    data.severity = DefaultJson.severity
              /\ FirstOf(<<StatusError(data), ConfidenceError(data),
                           ReasoningError(data), SeverityError(data)>>) # "none" =>
                    data.gap_details = DefaultJson.gap_details
              \* the recommendation prompt is sent for gap-type findings only
              /\ ~(Truthy(analysis.finding) /\ is_gap(analysis.finding[1])) =>
                    /\ recommendation_reply = [kind |-> "raises", content |-> <<>>]
                    /\ requirement_text = <<>>
              /\ run = [NoRun EXCEPT !.kind = "analysis",
                                     !.max_iterations = DefaultAnalysisCap,
                                     !.analysis_reply = reply,
                                     !.recommendation_reply = recommendation_reply,
                                     !.requirement_text = requirement_text,
                                     !.sections = sections,
                                     !.at = "loop"]
    /\ pc = "agent"
    /\ state = create_initial_state
    /\ final_state = None
    /\ retrieve_execs = 0
    /\ validate_execs = 0
    /\ route = None
    /\ tick = 0
    /\ manager = NoJobs

(* analyze 302-322 *)
AnalyzeReturn ==
    /\ run.at = "returned"
    /\ run.kind = "analysis"
    /\ run' = [run EXCEPT !.analysed = IF run.returned[1].success
                                       THEN run.returned[1].result
                                       ELSE Some(FailedAnalysis(run.sections)),
                          !.at = "analysed"]
    /\ UNCHANGED wf_idle

AnalyzerNext ==
    \/ AgentIterate
    \/ AgentThink
    \/ AnalysisAct
    \/ AgentObserve
    \/ AgentDecide
    \/ AgentExtract
    \/ AgentExcept
    \/ AnalyzeReturn

AnalyzerSpec == AnalyzerInit /\ [][AnalyzerNext]_vars

-----------------------------------------------------------------------------
(* src/src/agents/retrieval_agent.py: RetrievalAgent._act in iteration 1, 2 *)
(* or 3 of a run with the default cap, on the context the for loops of the  *)
(* earlier iterations leave: their queries executed, each sent once.        *)

QueryInit ==
    /\ \E step \in 1..DefaultRetrievalCap,
          primary \in PrimaryLists,
          secondary \in SecondaryLists,
          category \in CategoryLists :
          LET after_primary == ExecutedAfter(<<>>, primary)
              after_secondary == ExecutedAfter(after_primary, secondary)
              executed == CASE step = 1 -> <<>>
                            [] step = 2 -> after_primary
                            [] OTHER -> after_secondary
          IN  \* three searches in one iteration are drawn for iteration 1 only
              /\ Len(primary) = 3 =>
                    \/ primary = <<"q1", "", "q1">>
                    \/ step = 1 /\ secondary = <<"q4">> /\ category = <<"q3">>
              /\ secondary = <<"q4">> => Len(primary) = 3
              /\ run = [NoRun EXCEPT
                          !.kind = "retrieval",
                          !.max_iterations = DefaultRetrievalCap,
                          !.min_results = DefaultMinResults,
                          !.current_step = step,
                          !.steps = [i \in 1..(step - 1) |-> i],
                          !.state = "acting",
                          !.at = "act",
                          !.returned_scores = [id \in SectionIds |-> NeverReturned],
                          !.context.search_strategy =
                              [primary_queries |-> primary,
                               secondary_queries |-> secondary,
                               category_queries |-> category],
                          !.context.queries_executed = executed,
                          !.sent = [i \in 1..Len(executed) |->
                                      Sent(executed[i],
                                           IF i <= Len(after_primary) THEN 1 ELSE 2)]]
    /\ pc = "agent"
    /\ state = create_initial_state
    /\ final_state = None
    /\ retrieve_execs = 0
    /\ validate_execs = 0
    /\ route = None
    /\ tick = 0
    /\ manager = NoJobs

QueryNext ==
    \/ RetrievalActBegin
    \/ RetrievalActQuery
    \/ RetrievalActEnd
    \/ AgentObserve
    \/ AgentExcept
    \/ RetrieveReturn

QuerySpec == QueryInit /\ [][QueryNext]_vars

-----------------------------------------------------------------------------
(* Properties of the agent loop and of the retrieval run *)

(* C8: in one run of any agent with cap N >= 0 the step counter never       *)
(* exceeds N, at most N steps are recorded and the reported total is at     *)
(* most N, whatever _should_continue answers; a retrieval run with the      *)
(* default cap never goes past iteration 3.                                 *)
C8_IterationCap ==
    run.kind \in {"generic", "retrieval"} =>
        /\ run.current_step <= run.max_iterations
        /\ Len(run.steps) <= run.max_iterations
        /\ Truthy(run.returned) => run.returned[1].total_steps <= run.max_iterations
        /\ (run.kind = "retrieval" /\ run.max_iterations = DefaultRetrievalCap)
              => run.current_step <= 3

(* A run with cap 2 whose _should_continue asked for more after both        *)
(* iterations and which the cap ended.                                      *)
C8_Witness ==
    /\ run.kind = "generic"
    /\ run.at = "returned"
    /\ run.max_iterations = 2
    /\ Len(run.steps) = 2
    /\ run.state # "completed"
    /\ run.returned[1].success

HighQualityCount(r) ==
    Len(SelectSeq(r.context.sections_found, LAMBDA s : s.relevance_score > 70))

AllQueriesExecuted(r) ==
    SeqToSet(get_all_queries(r.context.search_strategy))
        \subseteq SeqToSet(r.context.queries_executed)

StopRule(r) ==
    \/ r.current_step >= r.max_iterations
    \/ HighQualityCount(r) >= r.min_results
    \/ AllQueriesExecuted(r)

(* C10: a retrieval run whose searches all answered ends after iteration i  *)
(* only if i has reached the cap, or at least min_results accumulated       *)
(* sections score above 0.7, or every query of the three lists has been     *)
(* executed; otherwise iteration i+1 runs.                                  *)
C10_ContinuationRule ==
    ( /\ run.kind = "retrieval"
      /\ run.at = "returned"
      /\ run.current_step >= 1
      /\ run.error # Some("vector_store.search") )
    => StopRule(run)

-----------------------------------------------------------------------------
(* Properties of the validator *)

NonCriticalChecks == {"logic_valid", "completeness_ok", "recommendation_actionable"}

VerdictReturned == run.kind = "validation" /\ run.at = "validated" /\ Truthy(run.validated)

(* C3: every verdict validate returns has is_valid true exactly when the    *)
(* citation check and the no-hallucination check passed and at most one of  *)
(* the logic, completeness and recommendation checks failed; after a        *)
(* completed run the checks are the ones computed for the finding, after a  *)
(* failed run the verdict carries no passed check and is_valid is false.    *)
C3_ValidIffChecks ==
    VerdictReturned =>
        LET v == run.validated[1]
            checks == v.validation_checks
        IN  /\ v.is_valid <=>
                  /\ Get(checks, "citation_valid")
                  /\ Get(checks, "no_hallucination")
                  /\ Cardinality({k \in NonCriticalChecks : ~Get(checks, k)}) <= 1
            /\ v.is_valid => Get(checks, "citation_valid") /\ Get(checks, "no_hallucination")
            /\ run.returned[1].success =>
                  checks = run_checks(run.finding[1], run.store, run.llm)
            /\ ~run.returned[1].success => ~v.is_valid

(* A valid verdict with exactly one failed non-critical check. *)
C3_Witness ==
    /\ VerdictReturned
    /\ run.returned[1].success
    /\ run.validated[1].is_valid
    /\ Cardinality({k \in NonCriticalChecks :
                        ~Get(run.validated[1].validation_checks, k)}) = 1

(* C4: once validate_finding has run for a finding whose checks completed,  *)
(* validation_status is "rejected" if the citation or the no-hallucination  *)
(* check failed, "approved" if the finding is valid, and "retry" if it is   *)
(* invalid through non-critical checks only (the validation counter is 0 on *)
(* entry, below its maximum).                                               *)
C4_VerdictFromChecks ==
    ( /\ VerdictReturned
      /\ run.returned[1].success
      /\ Truthy(state.current_finding)
      /\ pc # "validate_finding" )
    => LET v == run.validated[1]
           checks == v.validation_checks
           critical_failed == \E k \in CriticalChecks : ~Get(checks, k)
       IN  /\ critical_failed => state.validation_status = "rejected"
           /\ v.is_valid => state.validation_status = "approved"
           /\ (~v.is_valid /\ ~critical_failed) => state.validation_status = "retry"

-----------------------------------------------------------------------------
(* Properties of the accumulated sections of a retrieval run *)

NoDuplicateIds(sections) ==
    \A i, j \in 1..Len(sections) :
        sections[i].section_id = sections[j].section_id => i = j

HeldSections(r) ==
    IF r.at \in {"act_loop", "observe"}
    THEN r.context.sections_found \o r.action_result
    ELSE r.context.sections_found

(* C12 as stated: the relevance stored for a section is the highest score   *)
(* the store has returned for it so far (a later higher score replaces the  *)
(* stored one, a lower one does not).                                       *)
C12_HighestScoreStored ==
    run.kind = "retrieval" =>
        \A i \in 1..Len(HeldSections(run)) :
            HeldSections(run)[i].relevance_score =
                run.returned_scores[HeldSections(run)[i].section_id].best

(* C12: the relevance stored for a section is the first score the store     *)
(* returned for it; no later score, higher or lower, replaces it.           *)
C12_FirstScoreStored ==
    run.kind = "retrieval" =>
        \A i \in 1..Len(HeldSections(run)) :
            HeldSections(run)[i].relevance_score =
                run.returned_scores[HeldSections(run)[i].section_id].first

(* A section returned a second time with a higher score, still held with    *)
(* its first score.                                                         *)
C12_Witness ==
    /\ run.kind = "retrieval"
    /\ run.at = "returned"
    /\ \E i \in 1..Len(run.context.sections_found) :
          LET section == run.context.sections_found[i]
              noted == run.returned_scores[section.section_id]
          IN  /\ noted.times >= 2
              /\ noted.first < noted.best
              /\ section.relevance_score = noted.first

-----------------------------------------------------------------------------
(* Properties of the retrieval outcome *)

RECURSIVE SumAt(_, _)
SumAt(sections, indices) ==
    IF indices = {} THEN 0
    ELSE LET i == CHOOSE i \in indices : TRUE
         IN  sections[i].relevance_score + SumAt(sections, indices \ {i})

(* The largest total relevance of any k of the sections. *)
HighestSum(sections, k) ==
    LET totals == { SumAt(sections, I) :
                      I \in {J \in SUBSET (1..Len(sections)) : Cardinality(J) = k} }
    IN  CHOOSE t \in totals : \A u \in totals : u <= t

OutcomeReturned == run.kind = "retrieval" /\ run.at = "retrieved"

(* C13: the confidence of every outcome retrieve returns is the sum of the  *)
(* min(5, n) highest relevances of its n sections divided by min(5, n), and *)
(* 0 when n = 0; computing it again from the same sections gives the same   *)
(* value.                                                                   *)
C13_ConfidenceIsTopFiveMean ==
    OutcomeReturned =>
        LET outcome == run.outcome[1]
            n == Len(outcome.sections_found)
            k == Min(5, n)
        IN  /\ n = 0 => outcome.confidence = [sum |-> 0, count |-> 1]
            /\ n > 0 => /\ outcome.confidence.count = k
                        /\ outcome.confidence.sum = HighestSum(outcome.sections_found, k)
            /\ run.returned[1].success =>
                  outcome.confidence = _extract_result(run).confidence

(* An outcome of six sections of unequal relevance. *)
C13_Witness ==
    /\ OutcomeReturned
    /\ Len(run.outcome[1].sections_found) = 6
    /\ run.outcome[1].sections_found[6].relevance_score
          < run.outcome[1].sections_found[5].relevance_score
    /\ run.outcome[1].confidence.count = 5

CountWhere(sections, lo, hi) ==
    Cardinality({i \in 1..Len(sections) :
                    lo <= sections[i].relevance_score /\ sections[i].relevance_score <= hi})

(* C14: the coverage label of every outcome is comprehensive when at least  *)
(* 3 sections score above 0.8; otherwise partial when at least 1 section    *)
(* scores above 0.8 or at least 3 score within [0.6, 0.8]; otherwise        *)
(* insufficient when a section exists; otherwise none; and it is none       *)
(* exactly when the outcome has no section.                                 *)
C14_CoverageLabel ==
    OutcomeReturned =>
        LET outcome == run.outcome[1]
            sections == outcome.sections_found
            high == CountWhere(sections, 81, 100)
            medium == CountWhere(sections, 60, 80)
            label == outcome.coverage_assessment
        IN  /\ label = ( IF high >= 3 THEN "comprehensive"
                         ELSE IF high >= 1 \/ medium >= 3 THEN "partial"
                         ELSE IF Len(sections) >= 1 THEN "insufficient"
                         ELSE "none" )
            /\ label = "none" <=> Len(sections) = 0

(* Three sections at exactly 0.8 and none above: partial. *)
C14_Witness ==
    /\ OutcomeReturned
    /\ run.returned[1].success
    /\ CountWhere(run.outcome[1].sections_found, 80, 80) = 3
    /\ CountWhere(run.outcome[1].sections_found, 81, 100) = 0
    /\ run.outcome[1].coverage_assessment = "partial"

-----------------------------------------------------------------------------
(* Retrieval scenarios *)

ScoresOf(sections) == [i \in 1..Len(sections) |-> sections[i].relevance_score]

(* Iteration 1 of a run with min_results = 3 merged exactly three sections, *)
(* of relevance 0.9, 0.85 and 0.75, every search having answered.           *)
ScenarioA ==
    /\ OutcomeReturned
    /\ run.min_results = 3
    /\ run.current_step = 1
    /\ ScoresOf(run.context.sections_found) = <<90, 85, 75>>
    /\ run.error # Some("vector_store.search")

(* C15: in that scenario the run ends after iteration 1, with one retrieval *)
(* attempt and no secondary or category query sent, and its outcome holds   *)
(* the three sections with coverage label comprehensive.                    *)
C15_ScenarioA ==
    ScenarioA =>
        LET outcome == run.outcome[1]
        IN  /\ outcome.retrieval_attempts = 1
            /\ SeqToSet(run.context.queries_executed)
                  \subseteq SeqToSet(run.context.search_strategy.primary_queries)
            /\ ScoresOf(outcome.sections_found) = <<90, 85, 75>>
            /\ outcome.coverage_assessment = "comprehensive"

(* A run with the default cap over three non-empty tiers of distinct        *)
(* queries has ended, every search it sent answered, none with a section.   *)
NothingFound ==
    /\ OutcomeReturned
    /\ run.max_iterations = DefaultRetrievalCap
    /\ run.context.search_strategy =
          [primary_queries |-> <<"q1">>,
           secondary_queries |-> <<"q2">>,
           category_queries |-> <<"q3">>]
    /\ \A id \in DOMAIN run.returned_scores : run.returned_scores[id].times = 0
    /\ run.error # Some("vector_store.search")

(* C16: when no query of the three tiers returns a section the run uses all *)
(* 3 iterations and ends with coverage none and confidence 0.0, and the     *)
(* completeness check fails for every compliant finding without cited       *)
(* sections.                                                                *)
C16_NothingFound ==
    NothingFound =>
        LET outcome == run.outcome[1]
        IN  /\ outcome.retrieval_attempts = 3
            /\ outcome.coverage_assessment = "none"
            /\ outcome.confidence = ZeroConfidence
            /\ \A finding \in Findings :
                  (finding.status = "compliant" /\ finding.sections_found = <<>>)
                      => ~_verify_completeness(finding)

-----------------------------------------------------------------------------
(* Properties of the workflow's error handling *)

NodeStep == tick' # tick

(* C17: a node that raises internally appends one entry to the error list,  *)
(* sets the run status to failed and leaves the findings list unchanged.    *)
C17_NodeErrorFailsRun ==
    [][ (NodeStep /\ state'.errors > state.errors) =>
            /\ state'.errors = state.errors + 1
            /\ state'.workflow_status = "failed"
            /\ state'.findings = state.findings ]_vars

RequirementNodes ==
    {"retrieve_context", "analyze_gap", "validate_finding", "aggregate_findings"}

(* C18: once the run status is failed no later node sets it to another      *)
(* value, and none of retrieve_context, analyze_gap, validate_finding and   *)
(* aggregate_findings executes any more.                                    *)
C18_FailedIsTerminal ==
    [][ state.workflow_status = "failed" =>
            /\ state'.workflow_status = "failed"
            /\ NodeStep => pc \notin RequirementNodes ]_vars

-----------------------------------------------------------------------------
(* Properties of the requirement cursor *)

(* C20: every execution of aggregate_findings, appending or not, raises the *)
(* cursor by exactly one, resets the retrieval counter, results and         *)
(* confidence, the validation counter, the verdict and the current finding, *)
(* makes the requirement at the new cursor the current one, and marks the   *)
(* run completed exactly when the new cursor equals the number of           *)
(* requirements; no other node changes the cursor.                          *)
C20_CursorAdvance ==
    [][ /\ (NodeStep /\ pc = "aggregate_findings") =>
              /\ state'.current_requirement_index = state.current_requirement_index + 1
              /\ state'.retrieval_iteration = 0
              /\ state'.retrieval_results = 0
              /\ state'.retrieval_confidence = 0
              /\ state'.validation_iteration = 0
              /\ state'.validation_status = "None"
              /\ state'.validation_feedback = None
              /\ state'.current_finding = None
              /\ state'.requirements = state.requirements
              /\ state'.current_requirement =
                    IF state'.current_requirement_index < Len(state.requirements)
                    THEN Some(state.requirements[state'.current_requirement_index + 1])
                    ELSE None
              /\ state'.workflow_status = "completed"
                    <=> state'.current_requirement_index = Len(state.requirements)
        /\ (NodeStep /\ pc # "aggregate_findings") =>
              state'.current_requirement_index = state.current_requirement_index
        /\ state'.workflow_status = "completed" =>
              state'.current_requirement_index = Len(state'.requirements) ]_vars

(* Two requirements aggregated, one finding appended and one not, the run   *)
(* completed.                                                               *)
C20_Witness ==
    /\ state.current_requirement_index = 2
    /\ Len(state.requirements) = 2
    /\ Len(state.findings) = 1
    /\ state.workflow_status = "completed"
    /\ pc = "END"

-----------------------------------------------------------------------------
(* C21: no per-requirement data crosses from one requirement to the next.   *)
(* Whenever understand_query is about to run, the accumulated evidence,     *)
(* both counters, the confidence, the verdict, the feedback and the current *)
(* finding hold their initial values; and whenever retrieve_context is      *)
(* about to run with a search strategy, that strategy was built for the     *)
(* current requirement, also after understand_query failed.                 *)
C21_NoCrossRequirementData ==
    /\ pc = "understand_query" =>
          /\ state.retrieval_results = 0
          /\ state.retrieval_iteration = 0
          /\ state.retrieval_confidence = 0
          /\ state.validation_iteration = 0
          /\ state.validation_status = "None"
          /\ state.validation_feedback = None
          /\ state.current_finding = None
    /\ (pc = "retrieve_context" /\ Truthy(state.search_queries)
                                /\ Truthy(state.current_requirement)) =>
          state.search_queries[1].built_for = state.current_requirement[1]

-----------------------------------------------------------------------------
(* The step history of a run whose first n iterations were recorded. *)
FirstSteps(n) == [i \in 1..n |-> i]

FailedInIteration ==
    /\ run.at = "returned"
    /\ ~run.returned[1].success

(* C22 as stated: when _think, _act, _observe or _should_continue raises in *)
(* iteration k, run returns success = false with the error text and a null  *)
(* result, and the step history holds exactly iterations 1..k-1.            *)
C22_HistoryBeforeFailure ==
    FailedInIteration =>
        /\ Truthy(run.returned[1].error)
        /\ IsNone(run.returned[1].result)
        /\ run.returned[1].steps = FirstSteps(run.current_step - 1)

(* C22: a failed run returns success = false with the error text and a null *)
(* result; its step history holds iterations 1..k-1 when _think, _act or    *)
(* _observe raised in iteration k, and iterations 1..k when                 *)
(* _should_continue raised, because step k is recorded before the decision. *)
C22_HistoryAtFailure ==
    FailedInIteration =>
        /\ Truthy(run.returned[1].error)
        /\ IsNone(run.returned[1].result)
        /\ run.returned[1].total_steps = run.current_step
        /\ run.returned[1].steps =
              IF run.returned[1].error = Some("_should_continue")
              THEN FirstSteps(run.current_step)
              ELSE FirstSteps(run.current_step - 1)

(* _should_continue raised in the second iteration: both steps are kept. *)
C22_Witness ==
    /\ FailedInIteration
    /\ run.current_step = 2
    /\ run.returned[1].error = Some("_should_continue")
    /\ run.returned[1].steps = <<1, 2>>

-----------------------------------------------------------------------------
(* Properties of AnalysisAgent.analyze *)

Analysed == run.kind = "analysis" /\ run.at = "analysed"

(* The LLM answered with a text that cannot be turned into a finding: it is *)
(* not JSON, not a JSON object, or a field is missing or of the wrong type. *)
Unparsable ==
    /\ run.analysis_reply.kind \in {"not_json", "json_array", "json_object"}
    /\ AnalysisError(run.analysis_reply) # "none"

(* C23: analyze returns a Finding and never raises, whatever the LLM does;  *)
(* whenever the LLM's analysis output cannot be parsed (not JSON, fields    *)
(* missing or of the wrong type) the finding is uncertain with confidence   *)
(* 0.3 and exactly one reasoning step.                                      *)
C23_AnalyzeNeverRaises ==
    Analysed =>
        /\ Truthy(run.analysed)
        /\ Unparsable =>
              /\ run.analysed[1].status = "uncertain"
              /\ run.analysed[1].confidence = 30
              /\ Len(run.analysed[1].reasoning_chain) = 1

C25_ChainHasAStep ==
    (Analysed /\ Truthy(run.analysed)) => Len(run.analysed[1].reasoning_chain) >= 1

GapStatuses == {"gap", "partial_gap", "contradiction"}

-----------------------------------------------------------------------------
(* Properties of the validator's checks *)

(* Step 1 of a validation run has computed the checks of its finding. *)
ChecksComputed == run.kind = "validation" /\ Truthy(run.context.checks)

NoCitedSections(finding) == Len(finding.sections_found) = 0

(* C27: the completeness check fails exactly when the finding is a gap with *)
(* no cited sections and confidence below 0.7, or is compliant with no      *)
(* cited sections or with confidence below 0.6.                             *)
C27_CompletenessCheck ==
    ChecksComputed =>
        LET finding == run.finding[1]
        IN  ~run.context.checks[1].completeness_ok <=>
              \/ /\ finding.status = "gap"
                 /\ NoCitedSections(finding)
                 /\ finding.confidence < 70
              \/ /\ finding.status = "compliant"
                 /\ NoCitedSections(finding) \/ finding.confidence < 60

(* A compliant finding that cites a section with confidence 0.5 fails. *)
C27_Witness ==
    /\ ChecksComputed
    /\ run.finding[1].status = "compliant"
    /\ Len(run.finding[1].sections_found) = 1
    /\ run.finding[1].confidence = 50
    /\ ~run.context.checks[1].completeness_ok

StatesWhatPolicyHas(finding) ==
    /\ finding.gap_details # None
    /\ finding.gap_details[1].policy_has # None

(* C28: the no-hallucination check fails exactly when the gap details state *)
(* what the policy has while no section was retrieved, or the finding is    *)
(* uncertain with confidence above 0.7, or compliant with confidence below  *)
(* 0.5; and no verdict is valid for a compliant finding below 0.5 or an     *)
(* uncertain finding above 0.7.                                             *)
C28_HallucinationCheck ==
    LET finding == run.finding[1]
        overconfident == finding.status = "uncertain" /\ finding.confidence > 70
        underconfident == finding.status = "compliant" /\ finding.confidence < 50
    IN  /\ ChecksComputed =>
              ( ~run.context.checks[1].no_hallucination <=>
                  \/ StatesWhatPolicyHas(finding) /\ NoCitedSections(finding)
                  \/ overconfident
                  \/ underconfident )
        /\ (VerdictReturned /\ (overconfident \/ underconfident)) =>
              ~run.validated[1].is_valid

(* An uncertain finding of confidence 0.75 that passes every other check is *)
(* not valid.                                                               *)
C28_Witness ==
    /\ VerdictReturned
    /\ run.returned[1].success
    /\ run.finding[1].status = "uncertain"
    /\ run.finding[1].confidence = 75
    /\ run.validated[1].validation_checks.citation_valid
    /\ run.validated[1].validation_checks.logic_valid
    /\ run.validated[1].validation_checks.completeness_ok
    /\ run.validated[1].validation_checks.recommendation_actionable
    /\ ~run.validated[1].validation_checks.no_hallucination
    /\ ~run.validated[1].is_valid

(* C29: the logic check fails for a chain of fewer than 2 steps and the LLM *)
(* is not asked; for a longer chain the check is the LLM's is_valid answer, *)
(* and it passes when the call fails or the reply cannot be parsed.         *)
C29_LogicCheck ==
    ChecksComputed =>
        LET finding == run.finding[1]
            logic_valid == run.context.checks[1].logic_valid
        IN  /\ finding.reasoning_chain < 2 => (~logic_valid /\ run.llm_calls = 0)
            /\ finding.reasoning_chain >= 2 =>
                  /\ run.llm_calls = 1
                  /\ run.llm = "true" => logic_valid
                  /\ run.llm = "false" => ~logic_valid
                  /\ run.llm = "error" => logic_valid

(* The LLM call failed for a chain of two steps and the check passed. *)
C29_Witness ==
    /\ ChecksComputed
    /\ run.finding[1].reasoning_chain = 2
    /\ run.llm = "error"
    /\ run.context.checks[1].logic_valid

-----------------------------------------------------------------------------
(* Properties of the searches of a retrieval run *)

(* C30: every search of iteration 1 is for a primary query, of iteration 2  *)
(* for a secondary query, of iteration 3 for a category query, and no query *)
(* string is searched for twice in a run, however often it occurs in one    *)
(* list or across the lists.                                                *)
C30_QueriesByTier ==
    run.kind = "retrieval" =>
        LET strategy == run.context.search_strategy
        IN  /\ \A i \in 1..Len(run.sent) :
                  /\ run.sent[i].step = 1 =>
                        run.sent[i].query \in SeqToSet(strategy.primary_queries)
                  /\ run.sent[i].step = 2 =>
                        run.sent[i].query \in SeqToSet(strategy.secondary_queries)
                  /\ run.sent[i].step = 3 =>
                        run.sent[i].query \in SeqToSet(strategy.category_queries)
                  /\ run.sent[i].step \in 1..3
            /\ \A i, j \in 1..Len(run.sent) :
                  run.sent[i].query = run.sent[j].query => i = j

(* Iteration 2 has gone over a secondary list that repeats a primary query: *)
(* the query was searched for once, in iteration 1, and q2 once.            *)
C30_Witness ==
    /\ run.kind = "retrieval"
    /\ run.at = "observe"
    /\ run.current_step = 2
    /\ run.context.search_strategy.primary_queries = <<"q1", "", "q1">>
    /\ run.context.search_strategy.secondary_queries = <<"q1", "q2">>
    /\ run.sent = <<Sent("q1", 1), Sent("q2", 2)>>

-----------------------------------------------------------------------------
(* Properties of the merge of a retrieval iteration *)

NonIncreasing(sections) ==
    \A i \in 1..(Len(sections) - 1) :
        sections[i].relevance_score >= sections[i + 1].relevance_score

PositionOf(sections, section) == CHOOSE i \in 1..Len(sections) : sections[i] = section

(* merged holds the sections of arrived, and sections of equal relevance in *)
(* their order of arrival: the order is a function of the arrivals alone.   *)
OrderFixedBy(arrived, merged) ==
    /\ Len(merged) = Len(arrived)
    /\ SeqToSet(merged) = SeqToSet(arrived)
    /\ \A i, j \in 1..Len(arrived) :
          (i < j /\ arrived[i].relevance_score = arrived[j].relevance_score) =>
              PositionOf(merged, arrived[i]) < PositionOf(merged, arrived[j])

MergeStep == run.kind = "retrieval" /\ run.at = "observe" /\ run'.at # "observe"

(* C31: after every merge of a retrieval run, and in the returned outcome,  *)
(* the accumulated sections are in non-increasing order of relevance, and   *)
(* the order is determined by the sequence of store responses: the merged   *)
(* list is the list before the merge followed by the new sections, sorted   *)
(* with ties left in that order.                                            *)
C31_SortedAfterMerge ==
    /\ [][MergeStep =>
            /\ NonIncreasing(run'.context.sections_found)
            /\ OrderFixedBy(run.context.sections_found \o run.action_result,
                            run'.context.sections_found)]_vars
    /\ [](run.kind = "retrieval" =>
            /\ run.at \notin {"act_loop", "observe"} =>
                  NonIncreasing(run.context.sections_found)
            /\ Truthy(run.outcome) => NonIncreasing(run.outcome[1].sections_found))

(* Three sections arrived in increasing order of relevance and were merged  *)
(* into decreasing order.                                                   *)
C31_Witness ==
    /\ run.kind = "retrieval"
    /\ run.at = "except"
    /\ run.error = Some("ValueError")
    /\ ScoresOf(run.action_result) = <<50, 75, 90>>
    /\ ScoresOf(run.context.sections_found) = <<90, 75, 50>>

(* C32: within a retrieval iteration the accumulated section list is not    *)
(* modified while the iteration's queries are executed; it changes only in  *)
(* the merge, after the last query has returned; and the continuation rule  *)
(* is evaluated only on a list that holds the iteration's new sections.     *)
C32_MergeAfterQueries ==
    [][run.kind = "retrieval" =>
         /\ run.at \in {"act", "act_loop"} =>
               run'.context.sections_found = run.context.sections_found
         /\ run'.context.sections_found # run.context.sections_found =>
               (run.at = "observe" /\ run.queries_to_run = <<>>)
         /\ run.at = "decide" =>
               SeqToSet(run.action_result) \subseteq SeqToSet(run.context.sections_found)
      ]_vars

(* The first of two queries has returned a section; it is held apart from   *)
(* the accumulated list while the second query is still to run.             *)
C32_Witness ==
    /\ run.kind = "retrieval"
    /\ run.at = "act_loop"
    /\ Len(run.queries_to_run) = 1
    /\ Len(run.context.queries_executed) = 1
    /\ Len(run.action_result) = 1
    /\ run.context.sections_found = <<>>

-----------------------------------------------------------------------------
(* Properties of the edge functions *)

RouteEvaluated == pc = "edge" /\ pc' = "after_validate_finding"
RetrievalEdgeEvaluated == pc = "edge" /\ pc' = "after_retrieve_context"

ValidationRoutes == {"aggregate", "retry_analysis", "retry_retrieval"}

(* C34: in every state validate_finding leaves, its exception path with the *)
(* feedback still None included, route_after_validation returns one of      *)
(* aggregate, retry_analysis and retry_retrieval and does not raise.        *)
C34_RouteNeverRaises ==
    [][pc = "validate_finding" => route_after_validation(state') \in ValidationRoutes]_vars

-----------------------------------------------------------------------------
(* The retrieval outcome as the workflow edge sees it *)

(* nodes.py 234-237: retrieve_context stores the outcome's sections and     *)
(* confidence and counts the round.  The confidence sum / count is kept as  *)
(* its whole hundredths: it is below 0.70 exactly when the quotient is.     *)
store_retrieval_result(s, outcome) ==
    increment_retrieval_iteration(
        [s EXCEPT !.retrieval_results = Min(Len(outcome.sections_found), MaxSections),
                  !.retrieval_confidence =
                      outcome.confidence.sum \div outcome.confidence.count])

(* retrieval_agent.py 190-202: the run ended at the sufficient-coverage test *)
StoppedOnSufficientCoverage ==
    /\ run.kind = "retrieval"
    /\ run.at = "retrieved"
    /\ Truthy(run.returned) /\ run.returned[1].success
    /\ run.current_step < run.max_iterations
    /\ Len(SelectSeq(run.context.sections_found,
                     LAMBDA sec : sec.relevance_score > HighQualityScore)) >= run.min_results

-----------------------------------------------------------------------------
(* Properties of a retrieval run whose store fails *)

SearchRaised == run.kind = "retrieval" /\ run.error = Some("vector_store.search")

-----------------------------------------------------------------------------
(* Properties of the findings list *)

OneFindingPerRequirementId ==
    \A i, j \in 1..Len(state.findings) :
        i # j => state.findings[i].requirement_id # state.findings[j].requirement_id

FindingsWithinCursor == Len(state.findings) <= state.current_requirement_index

(* Each finding belongs to a requirement before the cursor, and later       *)
(* findings belong to later requirements.                                   *)
FindingsInRequirementOrder ==
    \E at \in [1..Len(state.findings) -> 1..Len(state.requirements)] :
        /\ \A i \in 1..Len(state.findings) :
              /\ at[i] <= state.current_requirement_index
              /\ state.requirements[at[i]] = state.findings[i].requirement_id
        /\ \A i, j \in 1..Len(state.findings) : i < j => at[i] < at[j]

(* C37: in every state of a run the findings list holds at most one finding *)
(* per requirement id, is no longer than the requirement cursor, and is in  *)
(* requirement-list order.                                                  *)
C37_FindingsList ==
    /\ OneFindingPerRequirementId
    /\ FindingsWithinCursor
    /\ FindingsInRequirementOrder

-----------------------------------------------------------------------------
(* Properties of the engines' results under a cap *)

(* C38: for every cap of at least 1, validate returns a ValidationResult    *)
(* and analyze returns a Finding; neither returns null.                     *)
C38_ResultNeverNull ==
    /\ (run.kind = "validation" /\ run.at = "validated" /\ run.max_iterations >= 1)
          => Truthy(run.validated)
    /\ (run.kind = "analysis" /\ run.at = "analysed" /\ run.max_iterations >= 1)
          => Truthy(run.analysed)

-----------------------------------------------------------------------------
(* The two validation edge functions *)

(* C39: needs_validation_retry returns, for every workflow state, the route *)
(* route_after_validation returns for it.                                   *)
C39_SameRoute ==
    pc = "after_needs_validation_retry" => route = Some(route_after_validation(state))

-----------------------------------------------------------------------------
(* src/services/pipeline_worker/jobs.py: the JobManager on one asyncio      *)
(* event loop.  A task runs from one suspension to the next without         *)
(* interleaving; callers of create_job, start_job and cancel_job run        *)
(* between the steps of the tasks.  Each job is started once.               *)

TerminalStatuses == {"completed", "failed", "cancelled"}

(* update_job 115-146, its status and error arguments *)
update_job(j, status, error) ==
    IF j.status = "none" THEN j
    ELSE [j EXCEPT !.status = status,
                   !.error = IF Truthy(error) THEN error ELSE j.error]

(* run_job 196-203: the finally block *)
run_job_cleanup(j) == [j EXCEPT !.logger = FALSE, !.registered = FALSE]

(* run_job 172-182: pipeline_func returned *)
run_job_completed(j) ==
    run_job_cleanup([update_job(j, "completed", None) EXCEPT !.task = "finished"])

(* run_job 184-194: pipeline_func raised an Exception *)
run_job_failed(j) ==
    run_job_cleanup([update_job(j, "failed", Some("error")) EXCEPT !.task = "finished"])

run_job_cancelled_as_failure(j) ==
    run_job_cleanup([update_job(j, "failed", Some("CancelledError"))
                       EXCEPT !.task = "finished", !.must_cancel = FALSE])

(* run_job 170-203 when the event loop throws CancelledError at the await   *)
(* of pipeline_func: CancelledError is a BaseException, so except Exception *)
(* (184) does not catch it; the finally block runs and the task ends        *)
(* cancelled.                                                               *)
run_job_cancelled(j) ==
    run_job_cleanup([j EXCEPT !.task = "cancelled", !.must_cancel = FALSE])

(* 74-105 *)
create_job(id) ==
    /\ manager[id].status = "none"
    /\ manager[id].task = "none"
    /\ manager' = [manager EXCEPT ![id] = [@ EXCEPT !.status = "pending",
                                                    !.logger = TRUE]]
    /\ UNCHANGED <<pc, state, final_state, retrieve_execs, validate_execs, route, tick, run>>

(* 205-217: the task is created and registered; start_job does not look    *)
(* the job up.                                                              *)
start_job(id) ==
    /\ manager[id].task = "none"
    /\ manager' = [manager EXCEPT ![id] = [@ EXCEPT !.task = "scheduled",
                                                    !.registered = TRUE]]
    /\ UNCHANGED <<pc, state, final_state, retrieve_execs, validate_execs, route, tick, run>>

(* pipeline_func from where it stands to its next suspension, its return or *)
(* its exception                                                            *)
PipelineRuns(j) ==
    {run_job_completed(j), run_job_failed(j)}
        \cup (IF j.awaits < MaxAwaits
              THEN {[j EXCEPT !.task = "suspended", !.awaits = j.awaits + 1]}
              ELSE {})

(* run_job 155-172: the first step of the task.  A task cancelled before    *)
(* its first step never enters the coroutine.                               *)
RunJobBegin(id) ==
    /\ manager[id].task = "scheduled"
    /\ LET j == manager[id]
       IN  \/ /\ j.must_cancel
              /\ manager' = [manager EXCEPT ![id] = [j EXCEPT !.task = "cancelled",
                                                              !.must_cancel = FALSE]]
           \/ /\ ~j.must_cancel
              /\ j.status = "none"
              \* 163-165: ValueError before the try
              /\ manager' = [manager EXCEPT ![id] = [j EXCEPT !.task = "finished"]]
           \/ /\ ~j.must_cancel
              /\ j.status # "none"
              /\ \E next \in PipelineRuns(update_job(j, "running", None)) :
                    manager' = [manager EXCEPT ![id] = next]
    /\ UNCHANGED <<pc, state, final_state, retrieve_execs, validate_execs, route, tick, run>>

(* run_job 172-203: the task is resumed at the await of pipeline_func *)
RunJobResume(id) ==
    /\ manager[id].task = "suspended"
    /\ LET j == manager[id]
       IN  \/ /\ j.must_cancel
              /\ manager' = [manager EXCEPT ![id] = run_job_cancelled(j)]
           \/ /\ ~j.must_cancel
              /\ \E next \in PipelineRuns(j) :
                    manager' = [manager EXCEPT ![id] = next]
    /\ UNCHANGED <<pc, state, final_state, retrieve_execs, validate_execs, route, tick, run>>

(* 219-226 *)
cancel_job(id) ==
    /\ LET j == manager[id]
       IN  IF j.registered /\ j.task \in {"scheduled", "suspended"}
           THEN manager' = [manager EXCEPT ![id] =
                              [update_job(j, "cancelled", None)
                                 EXCEPT !.must_cancel = TRUE, !.cancel_job = "True"]]
           ELSE manager' = [manager EXCEPT ![id] = [j EXCEPT !.cancel_job = "False"]]
    /\ UNCHANGED <<pc, state, final_state, retrieve_execs, validate_execs, route, tick, run>>

JobInit ==
    /\ manager = NoJobs
    /\ pc = "jobs"
    /\ state = create_initial_state
    /\ final_state = None
    /\ retrieve_execs = 0
    /\ validate_execs = 0
    /\ route = None
    /\ tick = 0
    /\ run = NoRun

JobNext ==
    \E id \in JobIds :
        \/ create_job(id)
        \/ start_job(id)
        \/ RunJobBegin(id)
        \/ RunJobResume(id)
        \/ cancel_job(id)

JobSpec == JobInit /\ [][JobNext]_vars

-----------------------------------------------------------------------------
(* Properties of the job runner *)

(* C40: a status completed, failed or cancelled never changes again, and    *)
(* after cancel_job returned true for a job its status is cancelled, under  *)
(* every interleaving of cancel_job with the steps of the job's run_job     *)
(* task.                                                                    *)
C40_TerminalStatusStays ==
    [][\A id \in JobIds :
          /\ manager[id].status \in TerminalStatuses
                => manager'[id].status = manager[id].status
          /\ (manager'[id].cancel_job = "True" /\ manager'[id].status # "none")
                => manager'[id].status = "cancelled"
      ]_vars

(* A job was cancelled while its task was suspended in the pipeline; the    *)
(* task has since ended and run_job's finally block has run.                *)
C40_Witness ==
    \E id \in JobIds :
        /\ manager[id].status = "cancelled"
        /\ manager[id].cancel_job = "True"
        /\ manager[id].task = "cancelled"
        /\ manager[id].awaits >= 1
        /\ ~manager[id].registered

=============================================================================
